---- MODULE Spec2Model ----
(***************************************************************************)
(* Model of the scoring / ranking / validation core of the agentic test    *)
(* prioritiser:                                                            *)
(*   - compute_risk_score          (src/project/core/scoring.py)           *)
(*   - parse_llm_output, prioritize_tests (src/project/core/prioritizer.py)*)
(*   - CriticAgent.critique        (src/agent/critic_agent.py)             *)
(*   - APFDValidator and the standalone compute_apfd                       *)
(*                                 (src/validation/validator.py)           *)
(*   - compute_frc                 (src/core/frc_score.py)                 *)
(*   - load_feedback, save_feedback (src/project/core/feedback.py)         *)
(*   - validate_dataset            (src/project/validate.py)               *)
(*   - run_prioritization          (src/main.py, src/project/main.py)      *)
(* Text is a sequence of one-character strings, so that lower() and the    *)
(* substring test are computed rather than assumed.  A float return value  *)
(* is held as an integer number of 1/10000 (round(x, 4)).                  *)
(***************************************************************************)
EXTENDS Integers, Sequences, FiniteSets, TLC

VARIABLES
    testcases,          \* the batch: a sequence of testcase records
    change_summary,     \* text of the change description
    feedback_history,   \* chronological feedback entries
    llm_priority,       \* parse_llm_output(agent.prioritize(...))
    scored,             \* [(id, score)] in batch order
    final_ranking,      \* scored after the score sort
    corrected,          \* id list: after the score sort, then after the critic
    pc,                 \* position inside prioritize_tests
    prioritized_order,  \* validator input: an order of test ids
    failing_tests,      \* validator input: the set of failing ids
    total_tests,        \* validator input of the standalone compute_apfd
    call,               \* which validator function has been called
    ret,                \* its return value
    k_values,           \* input of early_fault_detection: positions k
    random_order,       \* a random baseline order handed to a metric
    memory,             \* the feedback memory files, by path
    run                 \* the locals of run_prioritization

vars == <<testcases, change_summary, feedback_history, llm_priority, scored,
          final_ranking, corrected, pc, prioritized_order, failing_tests,
          total_tests, call, ret, k_values, random_order, memory, run>>

runVars == <<memory, run>>

rankVars == <<testcases, change_summary, feedback_history, llm_priority,
              scored, final_ranking, corrected, pc>>

validatorVars == <<prioritized_order, failing_tests, total_tests, call, ret,
                   k_values, random_order>>

----------------------------------------------------------------------------
(* Bounds of the model *)

\* longest batch handed to prioritize_tests
MaxTests == 3
\* longest short advisory list returned by the agent
MaxAdvisory == 2
\* test ids known to the validator runs: 1..NumIds
NumIds == 5
\* most entries that the feedback memory files hold together
MaxEntries == 3

(* Program constants *)

\* worst-rank value of an id absent from the advisory list
Sentinel == 999
\* penalty the critic gives to a test unrelated to the change
Penalty == -5
\* 10^4: the unit of a value rounded to 4 decimals
Scale4 == 10000
\* 10^2: the unit of a value rounded to 2 decimals
Scale2 == 100

None == "None"

\* an optional list argument: not given (Python None) or a list
KNone == [given |-> FALSE, values |-> << >>]
KList(s) == [given |-> TRUE, values |-> s]

----------------------------------------------------------------------------
(* Text: str.lower() and the substring operator `in` *)

UpperChars == <<"A","B","C","D","E","F","G","H","I","J","K","L","M",
                "N","O","P","Q","R","S","T","U","V","W","X","Y","Z">>
LowerChars == <<"a","b","c","d","e","f","g","h","i","j","k","l","m",
                "n","o","p","q","r","s","t","u","v","w","x","y","z">>

LowerChar(c) ==
    IF \E i \in 1..Len(UpperChars) : UpperChars[i] = c
    THEN LowerChars[CHOOSE i \in 1..Len(UpperChars) : UpperChars[i] = c]
    ELSE c

\* s.lower()
Lower(s) == [i \in 1..Len(s) |-> LowerChar(s[i])]

\* sub in s
Contains(sub, s) ==
    \E i \in 0..(Len(s) - Len(sub)) : SubSeq(s, i + 1, i + Len(sub)) = sub

----------------------------------------------------------------------------
(* sorted(seq, key=..., reverse=True): a stable sort, keys descending.     *)
(* The elements are records [item, key], key a tuple of integers compared  *)
(* lexicographically as Python compares tuples.                            *)

TupleLess(a, b) ==
    \E i \in 1..Len(a) :
        /\ a[i] < b[i]
        /\ \A j \in 1..(i - 1) : a[j] = b[j]

\* e goes after every element whose key is not smaller than its own
InsertReverse(out, e) ==
    LET p == Cardinality({i \in 1..Len(out) : ~TupleLess(out[i].key, e.key)})
    IN  SubSeq(out, 1, p) \o <<e>> \o SubSeq(out, p + 1, Len(out))

RECURSIVE SortedReverse(_)
SortedReverse(s) ==
    IF s = <<>> THEN <<>>
    ELSE InsertReverse(SortedReverse(SubSeq(s, 1, Len(s) - 1)), s[Len(s)])

\* list.index(x): 0-based position of the first occurrence
Index(s, x) ==
    LET hits == {i \in 1..Len(s) : s[i] = x}
    IN  (CHOOSE i \in hits : \A j \in hits : i <= j) - 1

Member(s, x) == \E i \in 1..Len(s) : s[i] = x

----------------------------------------------------------------------------
(* Inputs: testcase records, change summaries, feedback histories *)

Login    == <<"L","o","g","i","n">>
login    == <<"l","o","g","i","n">>
Cart     == <<"C","a","r","t">>
button   == <<"b","u","t","t","o","n">>
link     == <<"l","i","n","k">>
textbox  == <<"t","e","x","t","b","o","x">>
dropdown == <<"d","r","o","p","d","o","w","n">>
SelGo    == <<"#","g","o">>
SelX     == <<"#","x">>

TestCase(i, c, u, s, t) ==
    [id |-> i, component |-> c, ui_element |-> u, selector |-> s,
     execution_time |-> t]

\* the testcase records a batch is drawn from (ids are unique)
TestPool ==
    {TestCase(1, Login, button, SelGo, 1),
     TestCase(2, login, link,   SelX,  5),
     TestCase(3, Cart,  button, SelGo, 1),
     TestCase(4, Cart,  link,   SelX,  1),
     TestCase(5, Cart,  button, SelGo, 1)}

UnknownId == CHOOSE n \in 6..9 : \A t \in TestPool : t.id < n

\* sequences of n distinct elements of S
InjectiveSeqs(S, n) ==
    {s \in [1..n -> S] : \A i, j \in 1..n : i # j => s[i] # s[j]}

Batches == UNION {InjectiveSeqs(TestPool, n) : n \in 0..MaxTests}

\* "Fix login #go" and "cart page"
ChangeSummaries ==
    {<<"F","i","x"," ","l","o","g","i","n"," ","#","g","o">>,
     <<"c","a","r","t"," ","p","a","g","e">>}

\* result of a feedback entry: a plain string, a dict (with or without a
\* status key) or any other value
StrResult(st)  == [shape |-> "str",  status |-> st]
DictResult(st) == [shape |-> "dict", status |-> st]
OtherResult    == [shape |-> "other", status |-> None]

Feedback(i, r) == [test_id |-> i, result |-> r]

FeedbackHistories ==
    {<< >>,
     <<Feedback(4, DictResult("fail"))>>,
     <<Feedback(4, StrResult("fail")), Feedback(2, OtherResult),
       Feedback(4, DictResult("pass"))>>}

----------------------------------------------------------------------------
(* compute_risk_score: the score part *)

\* a reading that takes a result of another type for a failure
StatusOfOtherFails(result) ==
    IF result.shape = "dict"
    THEN (IF result.status = None THEN "unknown" ELSE result.status)
    ELSE IF result.shape = "str" THEN result.status
    ELSE "fail"

\* the status a feedback entry contributes to test_history
StatusOf(result) ==
    IF result.shape = "dict"
    THEN (IF result.status = None THEN "unknown" ELSE result.status)
    ELSE IF result.shape = "str" THEN result.status
    ELSE "unknown"

\* statuses of the entries of fh whose test_id matches, oldest first
RECURSIVE TestHistory(_, _)
TestHistory(test_id, fh) ==
    IF fh = << >> THEN << >>
    ELSE LET f == fh[1]
         IN  (IF f.test_id = test_id THEN <<StatusOf(f.result)>> ELSE << >>)
             \o TestHistory(test_id, Tail(fh))

\* list.count(x)
Count(s, x) == Cardinality({i \in 1..Len(s) : s[i] = x})

\* s[-3:]
LastThree(s) == SubSeq(s, IF Len(s) > 3 THEN Len(s) - 2 ELSE 1, Len(s))

RECURSIVE Pow2(_)
Pow2(n) == IF n = 0 THEN 1 ELSE 2 * Pow2(n - 1)

ImportantUi == {textbox, button, dropdown}

compute_risk_score(testcase, cs, fh) ==
    LET test_history == TestHistory(testcase.id, fh)
        failures     == Count(test_history, "fail")
        passes       == Count(test_history, "pass")
    IN    (IF Contains(Lower(testcase.component), Lower(cs)) THEN 5 ELSE 0)
        + (IF testcase.ui_element \in ImportantUi THEN 2 ELSE 0)
        + (IF Contains(testcase.selector, cs) THEN 3 ELSE 0)
        + (IF failures > 0 THEN Pow2(failures) ELSE 0)
        + (IF Member(test_history, "fail") /\ Member(test_history, "pass")
           THEN 3 ELSE 0)
        - (IF passes >= 3 /\ failures = 0 THEN 2 ELSE 0)
        + (IF Count(LastThree(test_history), "fail") >= 2 THEN 4 ELSE 0)
        - (IF testcase.execution_time > 4 THEN 1 ELSE 0)

----------------------------------------------------------------------------
(* parse_llm_output: the agent's text is a Python literal or not           *)

IntElem(n)   == [type |-> "int",   val |-> n]
StrElem(s)   == [type |-> "str",   val |-> s]
FloatElem(n) == [type |-> "float", val |-> n]

Digits == <<"0","1","2","3","4","5","6","7","8","9">>

\* str.isdigit() of a str element
IsDigit(s) ==
    /\ Len(s) > 0
    /\ \A i \in 1..Len(s) : \E d \in 1..Len(Digits) : Digits[d] = s[i]

\* int(s) for a string of digits
RECURSIVE IntOf(_)
IntOf(s) ==
    IF s = << >> THEN 0
    ELSE 10 * IntOf(SubSeq(s, 1, Len(s) - 1))
         + (CHOOSE d \in 1..Len(Digits) : Digits[d] = s[Len(s)]) - 1

\* isinstance(x, int) or str(x).isdigit(); str() of a float has a "."
Kept(x) ==
    \/ x.type = "int"
    \/ x.type = "str" /\ IsDigit(x.val)

\* the converted elements of elems[lo..hi] that pass the filter, in order
RECURSIVE KeptRange(_, _, _)
KeptRange(elems, lo, hi) ==
    IF lo > hi THEN << >>
    ELSE IF lo = hi
    THEN (IF Kept(elems[lo])
          THEN <<IF elems[lo].type = "int" THEN elems[lo].val
                 ELSE IntOf(elems[lo].val)>>
          ELSE << >>)
    ELSE LET mid == (lo + hi) \div 2
         IN  KeptRange(elems, lo, mid) \o KeptRange(elems, mid + 1, hi)

\* [int(x) for x in parsed if isinstance(x, int) or str(x).isdigit()]
KeptInts(elems) == KeptRange(elems, 1, Len(elems))

\* text: [literal |-> "list", elems |-> ...], another literal, or no literal
parse_llm_output(text) ==
    IF text.literal = "list" THEN KeptInts(text.elems) ELSE << >>

ListText(elems) == [literal |-> "list", elems |-> elems]

LlmElements ==
    {IntElem(1), IntElem(3), IntElem(5), IntElem(UnknownId),
     StrElem(<<"5">>), StrElem(<<"x">>), FloatElem(3)}

\* an answer that names Sentinel unknown ids before a test of the batch
LongText(n) ==
    ListText([i \in 1..(Sentinel + 1) |->
                 IF i <= Sentinel THEN IntElem(UnknownId) ELSE IntElem(n)])

LlmOutputs ==
    {ListText(e) : e \in UNION {[1..n -> LlmElements] : n \in 0..MaxAdvisory}}
    \cup {[literal |-> "other", elems |-> << >>],
          [literal |-> "invalid", elems |-> << >>]}
    \cup {LongText(3)}

----------------------------------------------------------------------------
(* prioritize_tests: risk scoring, score sort, critic pass *)

\* scored: one (id, score) pair for each testcase, in batch order
ScoreAll(tcs, cs, fh) ==
    [i \in 1..Len(tcs) |-> <<tcs[i].id, compute_risk_score(tcs[i], cs, fh)>>]

\* llm_priority.index(x[0]) if x[0] in llm_priority else 999
AdvisoryKey(llm, id) ==
    IF Member(llm, id) THEN Index(llm, id) ELSE Sentinel

Items(keyed) == [i \in 1..Len(keyed) |-> keyed[i].item]

\* a sort that is descending as well but leaves ties in reverse input order
RankByScoreUnstable(sc, llm) ==
    LET keyed == [i \in 1..Len(sc) |->
                     [item |-> sc[i],
                      key  |-> <<sc[i][2], AdvisoryKey(llm, sc[i][1]),
                                 i>>]]
    IN  Items(SortedReverse(keyed))

\* the score sort drops every pair that ties with an earlier one
RankByScoreDropTies(sc, llm) ==
    LET keyed == [i \in 1..Len(sc) |->
                     [item |-> sc[i],
                      key  |-> <<sc[i][2], AdvisoryKey(llm, sc[i][1])>>]]
        first == {i \in 1..Len(sc) :
                     \A j \in 1..(i - 1) : keyed[j].key # keyed[i].key}
        RECURSIVE Pick(_)
        Pick(i) == IF i > Len(sc) THEN << >>
                   ELSE (IF i \in first THEN <<keyed[i]>> ELSE << >>)
                        \o Pick(i + 1)
    IN  Items(SortedReverse(Pick(1)))

\* sorted(scored, key=lambda x: (x[1], advisory key), reverse=True)
RankByScore(sc, llm) ==
    LET keyed == [i \in 1..Len(sc) |->
                     [item |-> sc[i],
                      key  |-> <<sc[i][2], AdvisoryKey(llm, sc[i][1])>>]]
    IN  Items(SortedReverse(keyed))

\* [tc_id for tc_id, _ in final_ranking]
IdsOf(ranking) == [i \in 1..Len(ranking) |-> ranking[i][1]]

\* CriticAgent.testcases[test_id]
TestcaseOf(tcs, id) == CHOOSE tc \in {tcs[i] : i \in 1..Len(tcs)} : tc.id = id

\* a critic that compares the component without lower-casing it
PenaltyOfCaseSensitive(tc, cs) ==
    IF ~Contains(tc.component, cs) THEN Penalty ELSE 0

\* the penalty the critic gives to one testcase
PenaltyOf(tc, cs) ==
    IF ~Contains(Lower(tc.component), Lower(cs)) THEN Penalty ELSE 0

\* a critic that computes the penalties but returns the list unsorted
critiqueUnsorted(prioritized_list, cs, tcs) == prioritized_list

\* CriticAgent.critique
critique(prioritized_list, cs, tcs) ==
    LET keyed == [i \in 1..Len(prioritized_list) |->
                     [item |-> prioritized_list[i],
                      key  |-> <<PenaltyOf(TestcaseOf(tcs, prioritized_list[i]),
                                           cs)>>]]
    IN  Items(SortedReverse(keyed))

\* 1. LLM prioritization
AgentPrioritize ==
    /\ pc = "start"
    /\ \E raw_output \in LlmOutputs :
           llm_priority' = parse_llm_output(raw_output)
    /\ pc' = "scoring"
    /\ UNCHANGED <<runVars, testcases, change_summary, feedback_history, scored,
                   final_ranking, corrected, validatorVars>>

\* 2. Risk scoring
ScoreTests ==
    /\ pc = "scoring"
    /\ scored' = ScoreAll(testcases, change_summary, feedback_history)
    /\ pc' = "sorting"
    /\ UNCHANGED <<runVars,
                   testcases, change_summary, feedback_history, llm_priority,
                   final_ranking, corrected, validatorVars>>

\* 3. Sort by score + secondary LLM reasoning
SortByScore ==
    /\ pc = "sorting"
    /\ final_ranking' = RankByScore(scored, llm_priority)
    /\ corrected' = IdsOf(final_ranking')
    /\ pc' = "critic"
    /\ UNCHANGED <<runVars,
                   testcases, change_summary, feedback_history, llm_priority,
                   scored, validatorVars>>

\* 4. Critic agent improves ordering; the list is then returned
Critique ==
    /\ pc = "critic"
    /\ corrected' = critique(corrected, change_summary, testcases)
    /\ pc' = "done"
    /\ UNCHANGED <<runVars,
                   testcases, change_summary, feedback_history, llm_priority,
                   scored, final_ranking, validatorVars>>

InitRank ==
    /\ testcases \in Batches
    /\ change_summary \in ChangeSummaries
    /\ feedback_history \in FeedbackHistories
    /\ llm_priority = << >>
    /\ scored = << >>
    /\ final_ranking = << >>
    /\ corrected = << >>
    /\ pc = "start"
    /\ prioritized_order = << >>
    /\ failing_tests = {}
    /\ total_tests = 0
    /\ call = "idle"
    /\ ret = None
    /\ k_values = KNone
    /\ random_order = << >>
    /\ memory = << >>
    /\ run = None

NextRank == AgentPrioritize \/ ScoreTests \/ SortByScore \/ Critique

SpecRank == InitRank /\ [][NextRank]_vars

----------------------------------------------------------------------------
(* Properties of the ranking *)

BatchIds == [i \in 1..Len(testcases) |-> testcases[i].id]

\* 1-based position of id x in the id list s
PosIn(s, x) == CHOOSE i \in 1..Len(s) : s[i] = x

\* the score prioritize_tests recorded for id x
ScoreOfId(x) == scored[PosIn(BatchIds, x)][2]

\* the component of id x occurs, lower-cased, in the lower-cased summary
Related(x) ==
    LET comp == Lower(testcases[PosIn(BatchIds, x)].component)
        text == Lower(change_summary)
    IN  \E i \in 1..Len(text) + 1 : \E j \in (i - 1)..Len(text) :
            SubSeq(text, i, j) = comp

InAdvisory(x) == \E i \in 1..Len(llm_priority) : llm_priority[i] = x

\* 1-based position of the first occurrence of x in the advisory order
AdvisoryPos(x) ==
    CHOOSE i \in 1..Len(llm_priority) :
        /\ llm_priority[i] = x
        /\ \A j \in 1..(i - 1) : llm_priority[j] # x

IsPermutationOf(s, t) ==
    /\ Len(s) = Len(t)
    /\ \A i, j \in 1..Len(s) : i # j => s[i] # s[j]
    /\ {s[i] : i \in 1..Len(s)} = {t[i] : i \in 1..Len(t)}

\* C1: before the critic pass the ids are ordered by score descending; among
\* ids with equal score they are ordered by ascending advisory position, and
\* ids absent from the advisory order come after every advisory-ranked id
\* with the same score.
C1_ScoreThenAdvisoryAscending ==
    pc = "critic" =>
        \A p, q \in 1..Len(corrected) :
            p < q =>
                LET a == corrected[p]
                    b == corrected[q]
                IN  /\ ScoreOfId(a) >= ScoreOfId(b)
                    /\ ScoreOfId(a) = ScoreOfId(b) =>
                          /\ InAdvisory(a) /\ InAdvisory(b)
                                => AdvisoryPos(a) <= AdvisoryPos(b)
                          /\ ~(~InAdvisory(a) /\ InAdvisory(b))

\* C2: the id list returned by prioritize_tests is a permutation of the
\* batch ids: nothing duplicated, nothing dropped, same length.
C2_ResultIsPermutation ==
    pc = "done" => IsPermutationOf(corrected, BatchIds)

C2_Witness ==
    /\ pc = "done"
    /\ Len(testcases) = 3
    /\ corrected # BatchIds
    /\ \E i \in 1..Len(llm_priority) : llm_priority[i] = UnknownId

\* C3: in the critic's output every id whose component occurs in the change
\* summary (both lower-cased) precedes every id whose component does not,
\* and two ids with the same penalty keep the relative order of the input.
C3_CriticOnlyCrossesBoundary ==
    pc = "done" =>
        \A p, q \in 1..Len(corrected) :
            p < q =>
                LET a == corrected[p]
                    b == corrected[q]
                    input == IdsOf(final_ranking)
                IN  /\ ~(~Related(a) /\ Related(b))
                    /\ Related(a) = Related(b)
                          => PosIn(input, a) < PosIn(input, b)

C3_Witness ==
    /\ pc = "done"
    /\ corrected # IdsOf(final_ranking)
    /\ \E p, q \in 1..Len(corrected) :
           /\ p < q
           /\ Related(corrected[p]) = Related(corrected[q])
    /\ \E p \in 1..Len(testcases) :
           /\ Related(testcases[p].id)
           /\ testcases[p].component # Lower(testcases[p].component)

\* C4 as claimed: the final order is decided by score first, and the critic
\* penalty decides only between ids tied on score and advisory position.
C4_ScoreBeforePenalty ==
    pc = "done" =>
        \A p, q \in 1..Len(corrected) :
            p < q =>
                LET a == corrected[p]
                    b == corrected[q]
                    input == IdsOf(final_ranking)
                IN  /\ ScoreOfId(a) >= ScoreOfId(b)
                    /\ (Related(a) # Related(b)
                        /\ PosIn(input, b) < PosIn(input, a))
                          => /\ ScoreOfId(a) = ScoreOfId(b)
                             /\ InAdvisory(a) = InAdvisory(b)
                             /\ InAdvisory(a)
                                   => AdvisoryPos(a) = AdvisoryPos(b)

\* C4 as amended: the final order is decided by the critic penalty first,
\* then by score, then by the order the score sort left the ids in.
C4_PenaltyBeforeScore ==
    pc = "done" =>
        \A p, q \in 1..Len(corrected) :
            p < q =>
                LET a == corrected[p]
                    b == corrected[q]
                    input == IdsOf(final_ranking)
                IN  \/ Related(a) /\ ~Related(b)
                    \/ /\ Related(a) = Related(b)
                       /\ \/ ScoreOfId(a) > ScoreOfId(b)
                          \/ /\ ScoreOfId(a) = ScoreOfId(b)
                             /\ PosIn(input, a) < PosIn(input, b)

C4_Witness ==
    /\ pc = "done"
    /\ \E p, q \in 1..Len(corrected) :
           /\ p < q
           /\ ScoreOfId(corrected[p]) < ScoreOfId(corrected[q])
    /\ \E p, q \in 1..Len(corrected) :
           /\ p < q
           /\ Related(corrected[p]) = Related(corrected[q])
           /\ ScoreOfId(corrected[p]) > ScoreOfId(corrected[q])

\* C5: two tests with the same score that are both absent from the advisory
\* list keep their batch order after the score sort, and in the final output
\* too when the critic gives them the same penalty.
C5_StableForAbsentTies ==
    \A i, j \in 1..Len(testcases) :
        (/\ pc \in {"critic", "done"}
         /\ i < j
         /\ ~InAdvisory(BatchIds[i]) /\ ~InAdvisory(BatchIds[j])
         /\ ScoreOfId(BatchIds[i]) = ScoreOfId(BatchIds[j]))
        => /\ PosIn(IdsOf(final_ranking), BatchIds[i])
                < PosIn(IdsOf(final_ranking), BatchIds[j])
           /\ (pc = "done" /\ Related(BatchIds[i]) = Related(BatchIds[j]))
                 => PosIn(corrected, BatchIds[i]) < PosIn(corrected, BatchIds[j])

C5_Witness ==
    /\ pc = "done"
    /\ \E i, j \in 1..Len(testcases) :
           /\ i < j
           /\ BatchIds[i] > BatchIds[j]
           /\ ~InAdvisory(BatchIds[i]) /\ ~InAdvisory(BatchIds[j])
           /\ ScoreOfId(BatchIds[i]) = ScoreOfId(BatchIds[j])
           /\ Related(BatchIds[i]) = Related(BatchIds[j])
           /\ PosIn(corrected, BatchIds[i]) < PosIn(corrected, BatchIds[j])

\* the advisory entries s[lo..hi] that are ids of the batch, in order
RECURSIVE KnownRange(_, _, _)
KnownRange(s, lo, hi) ==
    IF lo > hi THEN << >>
    ELSE IF lo = hi
    THEN (IF \E i \in 1..Len(testcases) : testcases[i].id = s[lo]
          THEN <<s[lo]>> ELSE << >>)
    ELSE LET mid == (lo + hi) \div 2
         IN  KnownRange(s, lo, mid) \o KnownRange(s, mid + 1, hi)

\* C6: unknown ids in the advisory order have no effect: the final order
\* equals the one obtained from the advisory list without its unknown ids.
C6_UnknownIdsIgnored ==
    pc = "done" =>
        corrected =
            critique(IdsOf(RankByScore(scored,
                         KnownRange(llm_priority, 1, Len(llm_priority)))),
                     change_summary, testcases)

----------------------------------------------------------------------------
(* APFDValidator: APFD and wasted effort.  A float is an exact fraction    *)
(* <<numerator, denominator>> until round(x, 4) turns it into an integer   *)
(* number of 1/10000.                                                      *)

Abs(x) == IF x < 0 THEN 0 - x ELSE x

Frac(n, d) == <<n, d>>
FracAdd(a, b) == <<a[1] * b[2] + b[1] * a[2], a[2] * b[2]>>
FracSub(a, b) == <<a[1] * b[2] - b[1] * a[2], a[2] * b[2]>>

\* round(x, 4) in units of 1/10000: to nearest, a tie to the even digit
Round4(x) ==
    LET n == x[1] * Scale4
        d == x[2]
        q == n \div d          \* floor, also for a negative n
        r == n - q * d
    IN  IF 2 * r < d THEN q
        ELSE IF 2 * r > d THEN q + 1
        ELSE IF q % 2 = 0 THEN q ELSE q + 1

RECURSIVE SumSeq(_)
SumSeq(s) == IF s = << >> THEN 0 ELSE s[1] + SumSeq(Tail(s))

\* enumerate() that starts counting at 0
RanksOfFailuresFromZero(order, failing) ==
    LET RECURSIVE Loop(_)
        Loop(rank) ==
            IF rank > Len(order) THEN << >>
            ELSE (IF order[rank] \in failing THEN <<rank - 1>> ELSE << >>)
                 \o Loop(rank + 1)
    IN  Loop(1)

\* positions_of_failures: the 1-indexed ranks that hold a failing id
RanksOfFailures(order, failing) ==
    SelectSeq([rank \in 1..Len(order) |-> rank],
              LAMBDA rank : order[rank] \in failing)

\* exact fractions in lowest terms
RECURSIVE Gcd(_, _)
Gcd(a, b) == IF b = 0 THEN a ELSE Gcd(b, a % b)

FracNorm(x) ==
    LET g == Gcd(Abs(x[1]), x[2])
    IN  IF g = 0 THEN x ELSE <<x[1] \div g, x[2] \div g>>

\* an APFD without the half-test term 1 / (2 * n)
ApfdWithoutHalfTest(sum_positions, n, m) ==
    FracNorm(FracSub(Frac(1, 1), Frac(sum_positions, n * m)))

\* apfd = 1 - (sum_positions / (n * m)) + (1 / (2 * n))
ApfdUnrounded(sum_positions, n, m) ==
    FracNorm(FracAdd(FracNorm(FracSub(Frac(1, 1), Frac(sum_positions, n * m))),
                     Frac(1, 2 * n)))

\* an APFD that grows with the ranks of the failures
ApfdFormulaRising(sum_positions, n, m) ==
    Round4(FracNorm(FracAdd(Frac(sum_positions, n * m), Frac(1, 2 * n))))

\* round(apfd, 4)
ApfdFormula(sum_positions, n, m) ==
    Round4(ApfdUnrounded(sum_positions, n, m))

\* APFDValidator.compute_apfd(prioritized_order, failing_tests)
APFDValidator_compute_apfd(order, failing) ==
    IF failing = {} THEN Scale4
    ELSE LET n == Len(order)
             m == Cardinality(failing)
         IN  IF m = 0 \/ n = 0 THEN Scale4
             ELSE ApfdFormula(SumSeq(RanksOfFailures(order, failing)), n, m)

\* the standalone compute_apfd(prioritized_order, failing_tests, total_tests)
compute_apfd(order, failing, total) ==
    IF failing = {} \/ total = 0 THEN Scale4
    ELSE ApfdFormula(SumSeq(RanksOfFailures(order, failing)), total,
                     Cardinality(failing))

\* a scan that never stops early
calculate_wasted_effort_no_break(order, failing) ==
    IF failing = {} THEN 0
    ELSE Cardinality({i \in 1..Len(order) : order[i] \notin failing})

\* APFDValidator.calculate_wasted_effort(prioritized_order, failing_tests)
calculate_wasted_effort(order, failing) ==
    LET RECURSIVE Loop(_, _, _)
        Loop(i, wasted_count, faults_found_count) ==
            IF i > Len(order) THEN wasted_count
            ELSE LET hit    == order[i] \in failing
                     found  == IF hit THEN faults_found_count + 1
                               ELSE faults_found_count
                     wasted == IF hit THEN wasted_count
                               ELSE wasted_count + 1
                 IN  IF found = Cardinality(failing) THEN wasted
                     ELSE Loop(i + 1, wasted, found)
    IN  IF failing = {} THEN 0 ELSE Loop(1, 0, 0)

\* round(x, 2) in units of 1/100: to nearest, a tie to the even digit
Round2(x) ==
    LET n == x[1] * Scale2
        d == x[2]
        q == n \div d
        r == n - q * d
    IN  IF 2 * r < d THEN q
        ELSE IF 2 * r > d THEN q + 1
        ELSE IF q % 2 = 0 THEN q ELSE q + 1

\* order[:k]
Slice(order, k) ==
    IF k >= 0
    THEN SubSeq(order, 1, IF k < Len(order) THEN k ELSE Len(order))
    ELSE SubSeq(order, 1, IF Len(order) + k > 0 THEN Len(order) + k ELSE 0)

SetOf(s) == {s[i] : i \in 1..Len(s)}

\* a slice that loses the k-th test
EfdPercentageShort(order, failing, k) ==
    Round2(Frac(Cardinality(SetOf(Slice(order, k - 1)) \cap failing) * 100,
                Cardinality(failing)))

\* round((failures_in_k / len(failing_tests)) * 100, 2), in 1/100 percent
EfdPercentage(order, failing, k) ==
    Round2(Frac(Cardinality(SetOf(Slice(order, k)) \cap failing) * 100,
                Cardinality(failing)))

\* k_values = [5, 10] when none is given
DefaultKValues == <<5, 10>>

\* APFDValidator.early_fault_detection: a dict k -> percentage
early_fault_detection(order, failing, kv) ==
    LET ks == IF kv.given THEN kv.values ELSE DefaultKValues
    IN  IF failing = {}
        THEN [k \in SetOf(ks) |-> 100 * Scale2]
        ELSE [k \in SetOf(ks) |-> EfdPercentage(order, failing, k)]

\* the standalone early_fault_detection_simple(order, failing, k)
early_fault_detection_simple(order, failing, k) ==
    IF failing = {} THEN 100 * Scale2
    ELSE EfdPercentage(order, failing, k)

\* the lists of positions handed to early_fault_detection
KValueLists ==
    {KNone, KList(<< >>), KList(<<1>>), KList(<<2, 4>>), KList(<<0, 3, 3, 7>>)}

CallEarlyFaultDetection ==
    /\ call = "idle"
    /\ \E kv \in KValueLists :
           /\ k_values' = kv
           /\ ret' = early_fault_detection(prioritized_order, failing_tests, kv)
    /\ call' = "early_fault_detection"
    /\ UNCHANGED <<runVars,
                   prioritized_order, failing_tests, total_tests, random_order,
                   rankVars>>

CallEarlyFaultDetectionSimple ==
    /\ call = "idle"
    /\ \E k \in 0..(NumIds + 1) :
           /\ k_values' = KList(<<k>>)
           /\ ret' = early_fault_detection_simple(prioritized_order,
                                                  failing_tests, k)
    /\ call' = "early_fault_detection_simple"
    /\ UNCHANGED <<runVars,
                   prioritized_order, failing_tests, total_tests, random_order,
                   rankVars>>

TestIds == 1..NumIds

\* orders of distinct test ids, of every length
Orders == UNION {InjectiveSeqs(TestIds, n) : n \in 0..NumIds}

CallComputeApfd ==
    /\ call = "idle"
    /\ call' = "APFDValidator.compute_apfd"
    /\ ret' = APFDValidator_compute_apfd(prioritized_order, failing_tests)
    /\ UNCHANGED <<runVars,
                   prioritized_order, failing_tests, total_tests, k_values,
                   random_order, rankVars>>

CallComputeApfdStandalone ==
    /\ call = "idle"
    /\ \E total \in 0..NumIds :
           /\ total_tests' = total
           /\ ret' = compute_apfd(prioritized_order, failing_tests, total)
    /\ call' = "compute_apfd"
    /\ UNCHANGED <<runVars,
                   prioritized_order, failing_tests, k_values, random_order,
                   rankVars>>

CallCalculateWastedEffort ==
    /\ call = "idle"
    /\ call' = "calculate_wasted_effort"
    /\ ret' = calculate_wasted_effort(prioritized_order, failing_tests)
    /\ UNCHANGED <<runVars,
                   prioritized_order, failing_tests, total_tests, k_values,
                   random_order, rankVars>>

InitValidator ==
    /\ prioritized_order \in Orders
    /\ failing_tests \in SUBSET TestIds
    /\ total_tests = 0
    /\ call = "idle"
    /\ ret = None
    /\ k_values = KNone
    /\ random_order = << >>
    /\ memory = << >>
    /\ run = None
    /\ testcases = << >>
    /\ change_summary = << >>
    /\ feedback_history = << >>
    /\ llm_priority = << >>
    /\ scored = << >>
    /\ final_ranking = << >>
    /\ corrected = << >>
    /\ pc = "idle"

NextValidator ==
    \/ CallComputeApfd
    \/ CallComputeApfdStandalone
    \/ CallCalculateWastedEffort
    \/ CallEarlyFaultDetection
    \/ CallEarlyFaultDetectionSimple

SpecValidator == InitValidator /\ [][NextValidator]_vars

----------------------------------------------------------------------------
(* Properties of the validator *)

RECURSIVE SumSet(_)
SumSet(S) ==
    IF S = {} THEN 0
    ELSE LET x == CHOOSE y \in S : TRUE IN x + SumSet(S \ {x})

\* the 1-indexed positions of the order that hold a failing id
FailingPositions ==
    {i \in 1..Len(prioritized_order) : prioritized_order[i] \in failing_tests}


\* C7: for n > 0 and m > 0 the method returns
\* 1 - (sum of failing positions)/(n*m) + 1/(2n) rounded to 4 decimals, i.e.
\* the multiple of 1/10000 within half a unit of it; n = 5, m = 2 with the
\* failing ids at ranks 1 and 2 gives 0.8.
C7_ApfdFormula ==
    call = "APFDValidator.compute_apfd" =>
        LET n == Len(prioritized_order)
            m == Cardinality(failing_tests)
        IN  /\ (n > 0 /\ m > 0) =>
                  Abs(2 * n * m * ret
                      - Scale4 * (2 * n * m - 2 * SumSet(FailingPositions) + m))
                      <= n * m
            /\ (n = 5 /\ m = 2 /\ FailingPositions = {1, 2}) => ret = 8000

C7_Witness ==
    /\ call = "APFDValidator.compute_apfd"
    /\ Len(prioritized_order) = 5
    /\ Cardinality(failing_tests) = 2
    /\ FailingPositions = {1, 2}
    /\ ret = 8000

\* C8: compute_apfd (method and standalone function) returns exactly 1.0
\* whenever the failing set is empty or the order is empty.
C8_EmptyGivesOne ==
    (/\ call \in {"APFDValidator.compute_apfd", "compute_apfd"}
     /\ (failing_tests = {} \/ prioritized_order = << >>))
    => ret = Scale4

\* C9: the value returned by compute_apfd (method and standalone function)
\* lies between 0 and 1 inclusive.
C9_ApfdInUnitInterval ==
    call \in {"APFDValidator.compute_apfd", "compute_apfd"}
    => (0 <= ret /\ ret <= Scale4)

\* the shortest prefix of the order that holds every failing id (the whole
\* order when there is none)
StopPoint ==
    LET done == {p \in 0..Len(prioritized_order) :
                    failing_tests \subseteq
                        {prioritized_order[i] : i \in 1..p}}
    IN  IF done = {} THEN Len(prioritized_order)
        ELSE CHOOSE p \in done : \A q \in done : p <= q

\* C10: calculate_wasted_effort returns the number of non-failing ids met
\* up to the point where all failing ids have been seen; 0 when the failing
\* set is empty; 2 for order [1,2,3] with failing {3}.
C10_WastedEffort ==
    call = "calculate_wasted_effort" =>
        /\ ret = Cardinality({i \in 1..StopPoint :
                                 prioritized_order[i] \notin failing_tests})
        /\ failing_tests = {} => ret = 0
        /\ (prioritized_order = <<1, 2, 3>> /\ failing_tests = {3}) => ret = 2

C10_Witness ==
    /\ call = "calculate_wasted_effort"
    /\ Len(prioritized_order) = 4
    /\ SubSeq(prioritized_order, 1, 3) = <<1, 2, 3>>
    /\ failing_tests = {3}
    /\ ret = 2

\* the number of failing ids among the first k ids of the order
CaughtInFirst(k) ==
    Cardinality({i \in 1..Len(prioritized_order) :
                    i <= k /\ prioritized_order[i] \in failing_tests})

\* v is c/m*100 rounded to 2 decimals (in 1/100 percent): the multiple of
\* 0.01 within half a unit of it
IsPercentOf(v, c, m) == 2 * Abs(v * m - 100 * Scale2 * c) <= m

\* C12: early_fault_detection maps each k to
\* |first k ids of the order /\ failing set| / |failing set| * 100 rounded
\* to 2 decimals, and every k to 100.0 when the failing set is empty; the
\* standalone early_fault_detection_simple does the same for its one k.
C12_EarlyFaultDetection ==
    LET ks == IF k_values.given THEN k_values.values ELSE <<5, 10>>
        m  == Cardinality(failing_tests)
    IN  /\ call = "early_fault_detection" =>
              /\ DOMAIN ret = {ks[i] : i \in 1..Len(ks)}
              /\ \A k \in DOMAIN ret :
                     IF m = 0 THEN ret[k] = 100 * Scale2
                     ELSE IsPercentOf(ret[k], CaughtInFirst(k), m)
        /\ call = "early_fault_detection_simple" =>
              IF m = 0 THEN ret = 100 * Scale2
              ELSE IsPercentOf(ret, CaughtInFirst(ks[1]), m)

C12_Witness ==
    /\ call = "early_fault_detection"
    /\ k_values = KList(<<2, 4>>)
    /\ Cardinality(failing_tests) = 3
    /\ ret[2] = 3333
    /\ ret[4] = 6667

----------------------------------------------------------------------------
(* The validator over a batch of test cases: times, baselines, report.
   Of a test case the validator reads id, execution_time, last_result and
   flaky only.  execution_time is written by the extractors with two
   decimals (round(uniform(..), 2)), so times are integers in 1/100 s. *)

ReportCase(i, t, lr, f) ==
    [id |-> i, execution_time |-> t, last_result |-> lr, flaky |-> f]

T1 == ReportCase(1, 1 * Scale2, "fail", FALSE)
T2 == ReportCase(2, 2 * Scale2, "pass", TRUE)
T3 == ReportCase(3, 3 * Scale2, "fail", TRUE)
T4 == ReportCase(4, 2 * Scale2, "pass", FALSE)
T5 == ReportCase(5, 3 * Scale2, "fail", TRUE)

\* self.testcases of the validators that are constructed
ReportBatches ==
    {<< >>, <<T2>>, <<T3, T1>>, <<T1, T2, T3>>, <<T4, T3, T2>>,
     <<T5, T4, T1, T3>>, <<T4, T5, T2, T3, T1>>}

\* self.testcase_map = {tc["id"]: tc}: the last test case of an id
InTestcaseMap(tcs, id) == \E i \in 1..Len(tcs) : tcs[i].id = id

testcase_map(tcs, id) ==
    LET hits == {i \in 1..Len(tcs) : tcs[i].id = id}
    IN  tcs[CHOOSE i \in hits : \A j \in hits : j <= i]

\* _get_execution_time: 1.0 when the id is not in the map
get_execution_time(tcs, id) ==
    IF InTestcaseMap(tcs, id) THEN testcase_map(tcs, id).execution_time
    ELSE 1 * Scale2

\* a walk that never stops before the end of the order
calculate_time_to_find_all_faults_total(tcs, order, failing) ==
    IF failing = {} THEN 0
    ELSE SumSeq([i \in 1..Len(order) |-> get_execution_time(tcs, order[i])])

\* APFDValidator.calculate_time_to_find_all_faults, in 1/100 s
calculate_time_to_find_all_faults(tcs, order, failing) ==
    LET RECURSIVE Loop(_, _, _)
        Loop(i, current_time, faults_found) ==
            IF i > Len(order) THEN current_time
            ELSE LET t     == current_time + get_execution_time(tcs, order[i])
                     found == IF order[i] \in failing
                              THEN faults_found \cup {order[i]}
                              ELSE faults_found
                 IN  IF found = failing THEN t
                     ELSE Loop(i + 1, t, found)
    IN  IF failing = {} THEN 0 ELSE Loop(1, 0, {})

\* APFDValidator.calculate_time_saved: round(random_time - agentic_time, 2)
calculate_time_saved(tcs, agentic_order, rand_order, failing) ==
    LET agentic_time ==
            calculate_time_to_find_all_faults(tcs, agentic_order, failing)
        random_time ==
            calculate_time_to_find_all_faults(tcs, rand_order, failing)
    IN  Round2(Frac(random_time - agentic_time, Scale2))

\* the ids of the orders handed to the time functions: one more than the
\* longest order holds, and more than the smaller batches hold
TimeIds == 1..(MaxTests + 1)

\* the orders of at most MaxTests ids handed to the time functions
ShortOrders == UNION {InjectiveSeqs(TimeIds, n) : n \in 0..MaxTests}

\* the rearrangements of an order
Rearrangements(order) ==
    {[i \in 1..Len(order) |-> order[p[i]]] :
        p \in InjectiveSeqs(1..Len(order), Len(order))}

CallCalculateTimeToFindAllFaults ==
    /\ call = "idle"
    /\ \E order \in ShortOrders, failing \in SUBSET TimeIds :
           /\ prioritized_order' = order
           /\ failing_tests' = failing
           /\ ret' = calculate_time_to_find_all_faults(testcases, order,
                                                       failing)
    /\ call' = "calculate_time_to_find_all_faults"
    /\ UNCHANGED <<runVars, testcases, total_tests, k_values, random_order,
                   change_summary, feedback_history, llm_priority, scored,
                   final_ranking, corrected, pc>>

\* the failing sets handed to calculate_time_saved with an order: the sets
\* of its ids, and one with an id that no order holds
FailingOf(order) ==
    (SUBSET SetOf(order)) \cup {SetOf(order) \cup {UnknownId}}

CallCalculateTimeSaved ==
    /\ call = "idle"
    /\ \E order \in ShortOrders :
       \E failing \in FailingOf(order), rand \in Rearrangements(order) :
           /\ prioritized_order' = order
           /\ random_order' = rand
           /\ failing_tests' = failing
           /\ ret' = calculate_time_saved(testcases, order, rand, failing)
    /\ call' = "calculate_time_saved"
    /\ UNCHANGED <<runVars, testcases, total_tests, k_values,
                   change_summary, feedback_history, llm_priority, scored,
                   final_ranking, corrected, pc>>

\* the largest value random.random() is given (the values are 0..MaxRandom)
MaxRandom == 1

RandomValues == 0..MaxRandom

\* False < True
BoolInt(b) == IF b THEN 1 ELSE 0

\* an insertion that puts e before the elements of the same key
InsertBeforeEqual(out, e) ==
    LET p == Cardinality({i \in 1..Len(out) : TupleLess(out[i].key, e.key)})
    IN  SubSeq(out, 1, p) \o <<e>> \o SubSeq(out, p + 1, Len(out))

\* e goes after every element whose key is not greater than its own
Insert(out, e) ==
    LET p == Cardinality({i \in 1..Len(out) : ~TupleLess(e.key, out[i].key)})
    IN  SubSeq(out, 1, p) \o <<e>> \o SubSeq(out, p + 1, Len(out))

\* sorted(s, key=...): ascending and stable
RECURSIVE Sorted(_)
Sorted(s) ==
    IF s = <<>> THEN <<>>
    ELSE Insert(Sorted(SubSeq(s, 1, Len(s) - 1)), s[Len(s)])

\* a key that compares the random number first
HistoryKeyRandomFirst(tc, r) == <<r, BoolInt(tc.last_result # "fail")>>

\* (last_result != "fail", random.random())
HistoryKey(tc, r) == <<BoolInt(tc.last_result # "fail"), r>>

\* execution_time
RiskKey(tc) == <<tc.execution_time>>

\* (not flaky, last_result != "fail")
FlakyKey(tc) == <<BoolInt(~tc.flaky), BoolInt(tc.last_result # "fail")>>

Reversed(s) == [i \in 1..Len(s) |-> s[Len(s) + 1 - i]]

\* APFDValidator.generate_baseline_orderings; shuffled is what
\* random.shuffle leaves of the ids, rnd[i] what random.random() returns
\* for the i-th id
generate_baseline_orderings(tcs, shuffled, rnd) ==
    LET ids == [i \in 1..Len(tcs) |-> tcs[i].id]
        history == Sorted([i \in 1..Len(ids) |->
                       [item |-> ids[i],
                        key  |-> HistoryKey(testcase_map(tcs, ids[i]), rnd[i])]])
        risk    == Sorted([i \in 1..Len(ids) |->
                       [item |-> ids[i],
                        key  |-> RiskKey(testcase_map(tcs, ids[i]))]])
        flaky   == Sorted([i \in 1..Len(ids) |->
                       [item |-> ids[i],
                        key  |-> FlakyKey(testcase_map(tcs, ids[i]))]])
    IN  [random        |-> shuffled,
         fifo          |-> ids,
         reverse       |-> Reversed(ids),
         history_based |-> [i \in 1..Len(ids) |-> history[i].item],
         risk_based    |-> [i \in 1..Len(ids) |-> risk[i].item],
         flaky_aware   |-> [i \in 1..Len(ids) |-> flaky[i].item]]

BatchIdsOf(tcs) == [i \in 1..Len(tcs) |-> tcs[i].id]

CallGenerateBaselineOrderings ==
    /\ call = "idle"
    /\ \E shuffled \in Rearrangements(BatchIdsOf(testcases)),
          rnd \in [1..Len(testcases) -> RandomValues] :
           ret' = generate_baseline_orderings(testcases, shuffled, rnd)
    /\ call' = "generate_baseline_orderings"
    /\ UNCHANGED <<runVars,
                   testcases, prioritized_order, failing_tests, total_tests,
                   k_values, random_order,
                   change_summary, feedback_history, llm_priority, scored,
                   final_ranking, corrected, pc>>

\* int(n * 0.1), int(n * 0.2), int(n * 0.3): the float product truncates
\* to the floor of n * tenths / 10 for every batch size below 2000
IntOfTenths(n, tenths) == (n * tenths) \div 10

\* the default k values without the filter k > 0 and the fallback [1]
report_k_values_unfiltered(tcs, kv) ==
    IF kv.given THEN kv.values
    ELSE <<IntOfTenths(Len(tcs), 1), IntOfTenths(Len(tcs), 2),
           IntOfTenths(Len(tcs), 3)>>

\* the k_values generate_report works with
report_k_values(tcs, kv) ==
    IF kv.given THEN kv.values
    ELSE LET raw  == <<IntOfTenths(Len(tcs), 1), IntOfTenths(Len(tcs), 2),
                       IntOfTenths(Len(tcs), 3)>>
             kept == SelectSeq(raw, LAMBDA k : k > 0)
         IN  IF kept = << >> THEN <<1>> ELSE kept

\* APFDValidator.precision_at_k, in 1/100 percent
precision_at_k(order, failing, kv) ==
    LET ks == IF kv.given THEN kv.values ELSE DefaultKValues
    IN  [k \in SetOf(ks) |->
            IF k = 0 THEN 0
            ELSE Round2(Frac(Cardinality(SetOf(Slice(order, k)) \cap failing)
                                 * 100, k))]

\* APFDValidator.compare_against_baselines
compare_against_baselines(tcs, agentic_order, failing, shuffled, rnd) ==
    LET baselines == generate_baseline_orderings(tcs, shuffled, rnd)
    IN  [agentic_apfd |-> APFDValidator_compute_apfd(agentic_order, failing),
         random_apfd  |-> APFDValidator_compute_apfd(baselines.random, failing),
         fifo_apfd    |-> APFDValidator_compute_apfd(baselines.fifo, failing),
         reverse_apfd |-> APFDValidator_compute_apfd(baselines.reverse, failing),
         history_based_apfd |->
             APFDValidator_compute_apfd(baselines.history_based, failing),
         risk_based_apfd |->
             APFDValidator_compute_apfd(baselines.risk_based, failing),
         flaky_aware_apfd |->
             APFDValidator_compute_apfd(baselines.flaky_aware, failing)]

\* APFDValidator.get_failing_tests_found_earlier with k_percent = 0.2
get_failing_tests_found_earlier(tcs, agentic_order, rand_order, failing) ==
    LET k_count == IntOfTenths(Len(tcs), 2)
    IN  IF k_count = 0 THEN [agentic |-> 0, random |-> 0]
        ELSE [agentic |->
                  Cardinality(SetOf(Slice(agentic_order, k_count)) \cap failing),
              random |->
                  Cardinality(SetOf(Slice(rand_order, k_count)) \cap failing)]

\* round(agentic_apfd / rand_score, 2), rand_score 0.001 when not positive
lift_factor(apfd_scores) ==
    LET rand_score == IF apfd_scores.random_apfd <= 0 THEN Scale4 \div 1000
                      ELSE apfd_scores.random_apfd
    IN  Round2(Frac(apfd_scores.agentic_apfd, rand_score))

\* the dict generate_report returns, from the scores of its first call of
\* generate_baseline_orderings and the random order of its second call
report(tcs, agentic_order, failing, ks, apfd_scores, rand_order) ==
    [apfd_scores     |-> apfd_scores,
     early_fault_detection |->
         early_fault_detection(agentic_order, failing, KList(ks)),
     precision_at_k  |-> precision_at_k(agentic_order, failing, KList(ks)),
     wasted_effort   |-> calculate_wasted_effort(agentic_order, failing),
     time_saved      |->
         calculate_time_saved(tcs, agentic_order, rand_order, failing),
     lift_factor     |-> lift_factor(apfd_scores),
     failing_tests_found_earlier_top_20_percent |->
         get_failing_tests_found_earlier(tcs, agentic_order, rand_order,
                                         failing),
     total_tests     |-> Len(tcs),
     failing_tests   |-> Cardinality(failing),
     agentic_apfd    |-> apfd_scores.agentic_apfd,
     random_apfd     |-> apfd_scores.random_apfd,
     improvement_over_random |->
         apfd_scores.agentic_apfd - apfd_scores.random_apfd]

RotateLeft(s) == IF s = << >> THEN s ELSE SubSeq(s, 2, Len(s)) \o <<s[1]>>

\* the agentic orders handed to generate_report: orders of the batch ids
ReportOrders(tcs) ==
    {BatchIdsOf(tcs), RotateLeft(BatchIdsOf(tcs))}

\* a ground truth that takes the tests that passed
extract_ground_truth_passing(tcs) ==
    {tcs[i].id : i \in {j \in 1..Len(tcs) : tcs[j].last_result = "pass"}}

\* extract_ground_truth: the ids whose last_result is 'fail'
extract_ground_truth(tcs) ==
    {tcs[i].id : i \in {j \in 1..Len(tcs) : tcs[j].last_result = "fail"}}

\* the failing sets handed to generate_report
ReportFailing(tcs) ==
    {extract_ground_truth(tcs), {}}
        \cup {{tcs[i].id} : i \in {Len(tcs)} \cap DOMAIN tcs}

\* generate_report up to the return of compare_against_baselines
GenerateReportCompare ==
    /\ call = "idle"
    /\ \E agentic_order \in ReportOrders(testcases),
          failing \in ReportFailing(testcases),
          kv \in {KNone, KList(<<1, 2>>)},
          shuffled \in Rearrangements(BatchIdsOf(testcases)),
          rnd \in [1..Len(testcases) -> RandomValues] :
           /\ prioritized_order' = agentic_order
           /\ failing_tests' = failing
           /\ k_values' = kv
           /\ ret' = compare_against_baselines(testcases, agentic_order,
                                               failing, shuffled, rnd)
    /\ call' = "generate_report.compare_against_baselines"
    /\ UNCHANGED <<runVars, testcases, total_tests, random_order,
                   change_summary, feedback_history, llm_priority, scored,
                   final_ranking, corrected, pc>>

\* generate_report at its own call of generate_baseline_orderings, of which
\* it keeps the random order; the random numbers of this call reach only
\* the history_based order, which is dropped
GenerateReportBaselines ==
    /\ call = "generate_report.compare_against_baselines"
    /\ \E shuffled \in Rearrangements(BatchIdsOf(testcases)) :
           random_order' =
               generate_baseline_orderings(testcases, shuffled,
                   [i \in 1..Len(testcases) |-> 0]).random
    /\ call' = "generate_report.generate_baseline_orderings"
    /\ UNCHANGED <<runVars,
                   testcases, prioritized_order, failing_tests, total_tests,
                   k_values, ret,
                   change_summary, feedback_history, llm_priority, scored,
                   final_ranking, corrected, pc>>

\* generate_report from there to its return
GenerateReportReturn ==
    /\ call = "generate_report.generate_baseline_orderings"
    /\ ret' = report(testcases, prioritized_order, failing_tests,
                     report_k_values(testcases, k_values), ret, random_order)
    /\ call' = "generate_report"
    /\ UNCHANGED <<runVars,
                   testcases, prioritized_order, failing_tests, total_tests,
                   k_values, random_order,
                   change_summary, feedback_history, llm_priority, scored,
                   final_ranking, corrected, pc>>

InitReport ==
    /\ testcases \in ReportBatches
    /\ prioritized_order = << >>
    /\ failing_tests = {}
    /\ total_tests = 0
    /\ call = "idle"
    /\ ret = None
    /\ k_values = KNone
    /\ random_order = << >>
    /\ memory = << >>
    /\ run = None
    /\ change_summary = << >>
    /\ feedback_history = << >>
    /\ llm_priority = << >>
    /\ scored = << >>
    /\ final_ranking = << >>
    /\ corrected = << >>
    /\ pc = "idle"

NextReport ==
    \/ CallCalculateTimeToFindAllFaults
    \/ CallCalculateTimeSaved
    \/ CallGenerateBaselineOrderings
    \/ GenerateReportCompare
    \/ GenerateReportBaselines
    \/ GenerateReportReturn

SpecReport == InitReport /\ [][NextReport]_vars

\* the execution time of the p first ids of an order, 1.0 for an id that
\* is not in the batch
TimeOfPrefix(order, p) ==
    LET RECURSIVE Sum(_)
        Sum(i) ==
            IF i = 0 THEN 0
            ELSE Sum(i - 1)
                 + (IF \E j \in 1..Len(testcases) : testcases[j].id = order[i]
                    THEN (CHOOSE tc \in SetOf(testcases) : tc.id = order[i])
                             .execution_time
                    ELSE Scale2)
    IN  Sum(p)

\* the first position of the order at which every failing id has been met
\* (0 for an empty failing set), the end of the order if there is none
StopPointOf(order) ==
    LET done == {p \in 0..Len(order) :
                    failing_tests \subseteq {order[i] : i \in 1..p}}
    IN  IF done = {} THEN Len(order)
        ELSE CHOOSE p \in done : \A q \in done : p <= q

\* C11: calculate_time_to_find_all_faults returns the cumulative
\* execution_time along the order up to and including the position at which
\* the failing ids met so far are the whole failing set, or the time of the
\* whole order if that never happens; calculate_time_saved is that value for
\* the random order minus that value for the agentic order.
C11_TimeToFindAndTimeSaved ==
    /\ call = "calculate_time_to_find_all_faults" =>
           ret = TimeOfPrefix(prioritized_order, StopPointOf(prioritized_order))
    /\ call = "calculate_time_saved" =>
           ret = TimeOfPrefix(random_order, StopPointOf(random_order))
                 - TimeOfPrefix(prioritized_order,
                                StopPointOf(prioritized_order))

\* the sole failing test first (1.0 s) against last (6.0 s): 5.0 s saved
C11_Witness ==
    /\ call = "calculate_time_saved"
    /\ testcases = <<T1, T2, T3>>
    /\ prioritized_order = <<1, 2, 3>>
    /\ random_order = <<2, 3, 1>>
    /\ failing_tests = {1}
    /\ ret = 5 * Scale2

\* the test case of the batch with this id
CaseOf(id) == CHOOSE tc \in SetOf(testcases) : tc.id = id

\* the position of an id in the batch
BatchPos(id) == CHOOSE i \in 1..Len(testcases) : testcases[i].id = id

IsRearrangementOfBatch(order) ==
    /\ Len(order) = Len(testcases)
    /\ \A i \in 1..Len(testcases) :
           Cardinality({j \in 1..Len(order) : order[j] = testcases[i].id}) = 1

Failed(id) == CaseOf(id).last_result = "fail"

\* C18: in the history_based baseline every test whose last_result is
\* 'fail' precedes every test whose last_result is not 'fail', whatever the
\* random tie-break values; the baseline holds every id of the batch once.
C18_HistoryFailFirst ==
    call = "generate_baseline_orderings" =>
        LET h == ret.history_based
        IN  /\ IsRearrangementOfBatch(h)
            /\ \A i, j \in 1..Len(h) :
                   (Failed(h[i]) /\ ~Failed(h[j])) => i < j

\* the random numbers reorder the failed tests 5, 3, 1 and the others 4, 2
C18_Witness ==
    /\ call = "generate_baseline_orderings"
    /\ testcases = <<T4, T5, T2, T3, T1>>
    /\ ret.history_based = <<3, 5, 1, 2, 4>>

\* an order is sorted by Less, and ids that Less does not separate keep
\* their batch order
SortedStably(order, Less(_, _)) ==
    \A i, j \in 1..Len(order) :
        i < j => /\ ~Less(CaseOf(order[j]), CaseOf(order[i]))
                 /\ ~Less(CaseOf(order[i]), CaseOf(order[j]))
                        => BatchPos(order[i]) < BatchPos(order[j])

FasterThan(a, b) == a.execution_time < b.execution_time

FlakyAwareBefore(a, b) ==
    \/ a.flaky /\ ~b.flaky
    \/ a.flaky = b.flaky /\ a.last_result = "fail" /\ b.last_result # "fail"

\* C19: fifo is the batch id order whatever the shuffle, reverse is fifo
\* reversed, risk_based is in non-decreasing execution_time, flaky_aware has
\* the flaky tests before the others and in each group the 'fail' tests
\* first; ties keep batch order.
C19_DeterministicBaselines ==
    call = "generate_baseline_orderings" =>
        /\ ret.fifo = [i \in 1..Len(testcases) |-> testcases[i].id]
        /\ Len(ret.reverse) = Len(ret.fifo)
        /\ \A i \in 1..Len(ret.fifo) :
               ret.reverse[i] = ret.fifo[Len(ret.fifo) + 1 - i]
        /\ IsRearrangementOfBatch(ret.risk_based)
        /\ SortedStably(ret.risk_based, FasterThan)
        /\ IsRearrangementOfBatch(ret.flaky_aware)
        /\ SortedStably(ret.flaky_aware, FlakyAwareBefore)

C19_Witness ==
    /\ call = "generate_baseline_orderings"
    /\ testcases = <<T4, T5, T2, T3, T1>>
    /\ ret.random # ret.fifo
    /\ ret.fifo = <<4, 5, 2, 3, 1>>
    /\ ret.reverse = <<1, 3, 2, 5, 4>>
    /\ ret.risk_based = <<1, 4, 2, 5, 3>>
    /\ ret.flaky_aware = <<5, 3, 2, 1, 4>>

\* one ordering r of the batch accounts for everything the report says
\* about the random baseline
ExplainsReport(r) ==
    /\ ret.random_apfd = APFDValidator_compute_apfd(r, failing_tests)
    /\ ret.time_saved =
           calculate_time_saved(testcases, prioritized_order, r, failing_tests)
    /\ ret.failing_tests_found_earlier_top_20_percent.random =
           get_failing_tests_found_earlier(testcases, prioritized_order, r,
                                           failing_tests).random

\* C20: within one generate_report call there is a single random baseline:
\* the ordering whose APFD is reported as random_apfd is the ordering that
\* time_saved and the top-20% 'random' count are computed against.
C20_SingleRandomBaseline ==
    call = "generate_report" =>
        \E r \in Rearrangements(BatchIdsOf(testcases)) : ExplainsReport(r)

----------------------------------------------------------------------------
(* Scoring one test case: compute_risk_score with its reason string,
   compute_frc and compute_combined_score.  A test case is a record holding
   the keys its dict holds; a call returns [raised |-> None, ...] or, when
   it ends in an exception, [raised |-> the exception]. *)

FracMul(a, b) == FracNorm(<<a[1] * b[1], a[2] * b[2]>>)
FracPlus(a, b) == FracNorm(FracAdd(a, b))
FracLeq(a, b) == a[1] * b[2] <= b[1] * a[2]
FracMin(a, b) == IF FracLeq(a, b) THEN a ELSE b
FracMax(a, b) == IF FracLeq(a, b) THEN b ELSE a

\* dict.get(key, default)
Get(d, key, default) == IF key \in DOMAIN d THEN d[key] ELSE default

\* COMPONENT_CRITICALITY in the order of the dict, values in 1/100
COMPONENT_CRITICALITY ==
    <<      [key |-> <<"l","o","g","i","n">>,
       score |-> Frac(100, 100)],
      [key |-> <<"a","u","t","h","e","n","t","i","c","a","t","i","o","n">>,
       score |-> Frac(100, 100)],
      [key |-> <<"a","u","t","h">>,
       score |-> Frac(100, 100)],
      [key |-> <<"c","h","e","c","k","o","u","t">>,
       score |-> Frac(95, 100)],
      [key |-> <<"p","a","y","m","e","n","t">>,
       score |-> Frac(95, 100)],
      [key |-> <<"c","a","r","t">>,
       score |-> Frac(90, 100)],
      [key |-> <<"p","r","o","f","i","l","e">>,
       score |-> Frac(70, 100)],
      [key |-> <<"d","a","s","h","b","o","a","r","d">>,
       score |-> Frac(60, 100)],
      [key |-> <<"s","e","t","t","i","n","g","s">>,
       score |-> Frac(50, 100)],
      [key |-> <<"s","e","a","r","c","h">>,
       score |-> Frac(70, 100)],
      [key |-> <<"n","a","v","i","g","a","t","i","o","n">>,
       score |-> Frac(50, 100)],
      [key |-> <<"f","o","o","t","e","r">>,
       score |-> Frac(20, 100)],
      [key |-> <<"h","e","a","d","e","r">>,
       score |-> Frac(40, 100)],
      [key |-> <<"s","i","d","e","b","a","r">>,
       score |-> Frac(40, 100)],
      [key |-> <<"h","o","m","e","p","a","g","e">>,
       score |-> Frac(30, 100)]>>

\* _get_component_criticality: an exact match, else the first key of the
\* dict that is a substring, else 0.5
get_component_criticality(component) ==
    LET component_lower == Lower(component)
        table == COMPONENT_CRITICALITY
        exact == {i \in 1..Len(table) : table[i].key = component_lower}
        sub   == {i \in 1..Len(table) : Contains(table[i].key, component_lower)}
    IN  IF exact # {} THEN table[CHOOSE i \in exact : TRUE].score
        ELSE IF sub # {}
        THEN table[CHOOSE i \in sub : \A j \in sub : i <= j].score
        ELSE Frac(1, 2)

\* what f["result"]["status"] does with a result
SubscriptStatus(result) ==
    IF result.shape = "dict"
    THEN (IF result.status = None THEN [raised |-> "KeyError"]
          ELSE [raised |-> None, value |-> result.status])
    ELSE [raised |-> "TypeError"]

\* s[-5:]
LastFive(s) == SubSeq(s, IF Len(s) > 5 THEN Len(s) - 4 ELSE 1, Len(s))

\* sum of 0.5 ** (len - i - 1) over the 'fail' entries of last
RECURSIVE RecentWeight(_, _)
RecentWeight(last, i) ==
    IF i > Len(last) THEN Frac(0, 1)
    ELSE FracPlus(IF last[i] = "fail" THEN Frac(1, Pow2(Len(last) - i))
                  ELSE Frac(0, 1),
                  RecentWeight(last, i + 1))

\* the entries of the history with the test's id, in order
Matching(test_id, fh) == SelectSeq(fh, LAMBDA f : f.test_id = test_id)

\* not testcase.get("id"): the id is missing, or it is 0
FalsyId(testcase) == "id" \notin DOMAIN testcase \/ testcase.id = 0

\* _compute_failure_history_score
compute_failure_history_score(testcase, fh) ==
    LET matching == IF FalsyId(testcase) THEN << >>
                    ELSE Matching(testcase.id, fh)
        subs == [i \in 1..Len(matching) |-> SubscriptStatus(matching[i].result)]
        bad  == {i \in 1..Len(subs) : subs[i].raised # None}
        results == [i \in 1..Len(subs) |-> subs[i].value]
        total == Len(results)
        failures == Count(results, "fail")
        failure_rate == Frac(failures, total)
        recent_weight == RecentWeight(LastFive(results), 1)
        score == FracPlus(FracMul(Frac(7, 10), failure_rate),
                          FracMul(Frac(3, 10),
                                  FracMin(FracMul(recent_weight, Frac(1, 5)),
                                          Frac(1, 1))))
    IN  IF FalsyId(testcase) \/ fh = << >>
        THEN [raised |-> None, value |-> Frac(0, 1)]
        ELSE IF bad # {}
        THEN [raised |-> subs[CHOOSE i \in bad : \A j \in bad : i <= j].raised]
        ELSE IF total = 0 THEN [raised |-> None, value |-> Frac(0, 1)]
        ELSE [raised |-> None, value |-> FracMin(score, Frac(1, 1))]

StartsWith(s, p) == Len(s) >= Len(p) /\ SubSeq(s, 1, Len(p)) = p

\* re.search(r"\[\d+\]", s)
HasPositionPredicate(s) ==
    \E i, j \in 1..Len(s) :
        /\ i + 1 < j
        /\ s[i] = "[" /\ s[j] = "]"
        /\ \A k \in (i + 1)..(j - 1) : IsDigit(<<s[k]>>)

\* re.search(r"\[.*" + c + "=", s) for c one of * and ^
HasPartialMatch(s, c) ==
    \E i, j \in 1..Len(s) :
        /\ i < j /\ j < Len(s)
        /\ s[i] = "[" /\ s[j] = c /\ s[j + 1] = "="

Max(a, b) == IF a >= b THEN a ELSE b

\* _compute_selector_fragility_score
compute_selector_fragility_score(selector) ==
    LET xpath == \/ StartsWith(selector, <<"/", "/">>)
                 \/ StartsWith(selector, <<".", "/", "/">>)
                 \/ StartsWith(selector, <<"/">>)
        x1 == IF Member(selector, "[") /\ HasPositionPredicate(selector)
              THEN Frac(7, 10) ELSE Frac(3, 10)
        x2 == IF Count(selector, "[") > 1 THEN FracPlus(x1, Frac(2, 10))
              ELSE x1
        nesting_depth == Max(Count(selector, " "), Count(selector, ">"))
        c1 == FracMin(Frac(nesting_depth * 5, 100), Frac(2, 10))
        c2 == IF HasPartialMatch(selector, "*") THEN FracPlus(c1, Frac(15, 100))
              ELSE c1
        c3 == IF HasPartialMatch(selector, "^") THEN FracPlus(c2, Frac(1, 10))
              ELSE c2
        c4 == IF StartsWith(selector, <<"#">>)
              THEN FracMax(Frac(0, 1), FracSub(c3, Frac(2, 10)))
              ELSE c3
    IN  IF selector = << >> THEN Frac(1, 2)
        ELSE FracMin(IF xpath THEN x2 ELSE c4, Frac(1, 1))

\* 0.4 * history + 0.3 * criticality + 0.2 * fragility + 0.1 * flakiness
frc_sum(fh_score, crit, frag, flaky) ==
    FracPlus(FracPlus(FracMul(Frac(4, 10), fh_score),
                      FracMul(Frac(3, 10), crit)),
             FracPlus(FracMul(Frac(2, 10), frag),
                      IF flaky THEN Frac(1, 10) ELSE Frac(0, 1)))

\* compute_frc: the value is in 1/10000
compute_frc(testcase, cs, fh) ==
    LET failure_history_score == compute_failure_history_score(testcase, fh)
        component == Get(testcase, "component", << >>)
        selector  == Get(testcase, "selector", << >>)
        flaky     == Get(testcase, "flaky", FALSE)
        frc == frc_sum(failure_history_score.value,
                       get_component_criticality(component),
                       compute_selector_fragility_score(selector), flaky)
    IN  IF failure_history_score.raised # None THEN failure_history_score
        ELSE [raised |-> None, value |-> Round4(FracMin(frc, Frac(1, 1)))]

\* the keys compute_risk_score subscripts, in the order it reads them
RequiredKeys ==
    <<"component", "ui_element", "selector", "id", "execution_time">>

\* ", ".join(reasons)
RECURSIVE Join(_)
Join(reasons) ==
    IF Len(reasons) = 1 THEN reasons[1]
    ELSE reasons[1] \o ", " \o Join(Tail(reasons))

When(cond, phrase) == IF cond THEN <<phrase>> ELSE << >>

\* a reasons list that names the history rules first
risk_reasons_history_first(testcase, cs, fh) ==
    LET test_history == TestHistory(testcase.id, fh)
        failures     == Count(test_history, "fail")
        passes       == Count(test_history, "pass")
    IN     When(failures > 0, ToString(failures) \o " historical failures")
        \o When(Member(test_history, "fail") /\ Member(test_history, "pass"),
                "Flaky behavior detected")
        \o When(passes >= 3 /\ failures = 0, "Consistently stable test")
        \o When(Count(LastThree(test_history), "fail") >= 2,
                "Recent failure trend")
        \o When(Contains(Lower(testcase.component), Lower(cs)),
                "Component changed")
        \o When(testcase.ui_element \in ImportantUi, "Important UI element")
        \o When(Contains(testcase.selector, cs), "Selector match")
        \o When(testcase.execution_time > 4, "Slow test penalty")

\* a reasons list whose stability rule does not look at the failures
risk_reasons_stable_by_passes(testcase, cs, fh) ==
    LET test_history == TestHistory(testcase.id, fh)
        failures     == Count(test_history, "fail")
        passes       == Count(test_history, "pass")
    IN     When(Contains(Lower(testcase.component), Lower(cs)),
                "Component changed")
        \o When(testcase.ui_element \in ImportantUi, "Important UI element")
        \o When(Contains(testcase.selector, cs), "Selector match")
        \o When(failures > 0, ToString(failures) \o " historical failures")
        \o When(Member(test_history, "fail") /\ Member(test_history, "pass"),
                "Flaky behavior detected")
        \o When(passes >= 3, "Consistently stable test")
        \o When(Count(LastThree(test_history), "fail") >= 2,
                "Recent failure trend")
        \o When(testcase.execution_time > 4, "Slow test penalty")

\* the reasons list of compute_risk_score, in the order of its rules
risk_reasons(testcase, cs, fh) ==
    LET test_history == TestHistory(testcase.id, fh)
        failures     == Count(test_history, "fail")
        passes       == Count(test_history, "pass")
    IN     When(Contains(Lower(testcase.component), Lower(cs)),
                "Component changed")
        \o When(testcase.ui_element \in ImportantUi, "Important UI element")
        \o When(Contains(testcase.selector, cs), "Selector match")
        \o When(failures > 0, ToString(failures) \o " historical failures")
        \o When(Member(test_history, "fail") /\ Member(test_history, "pass"),
                "Flaky behavior detected")
        \o When(passes >= 3 /\ failures = 0, "Consistently stable test")
        \o When(Count(LastThree(test_history), "fail") >= 2,
                "Recent failure trend")
        \o When(testcase.execution_time > 4, "Slow test penalty")

\* what compute_risk_score returns when it reaches its return statement
risk_result(testcase, cs, fh) ==
    LET reasons == risk_reasons(testcase, cs, fh)
    IN  [raised |-> None,
         score  |-> compute_risk_score(testcase, cs, fh),
         reason |-> IF reasons = << >> THEN "No major risk factors"
                    ELSE Join(reasons),
         reasons |-> reasons]

\* a call that returns an empty result for an incomplete test case
risk_score_call_defaulting(testcase, cs, fh) ==
    IF \E i \in 1..Len(RequiredKeys) : RequiredKeys[i] \notin DOMAIN testcase
    THEN [raised |-> None, score |-> 0, reason |-> "No major risk factors",
          reasons |-> << >>]
    ELSE risk_result(testcase, cs, fh)

\* a call of compute_risk_score(testcase, change_summary, feedback_history):
\* the (score, reason) pair, or the KeyError of the first key that the test
\* case does not hold
risk_score_call(testcase, cs, fh) ==
    LET missing == {i \in 1..Len(RequiredKeys) :
                       RequiredKeys[i] \notin DOMAIN testcase}
    IN  IF missing # {}
        THEN [raised |-> "KeyError",
              key |-> RequiredKeys[CHOOSE i \in missing :
                                       \A j \in missing : i <= j]]
        ELSE risk_result(testcase, cs, fh)

\* risk / (abs(risk) + 10.0), 0.0 for a risk of 0, clamped to [0, 1]
normalized_risk(risk_score) ==
    LET raw == IF risk_score # 0
               THEN FracNorm(Frac(risk_score, Abs(risk_score) + 10))
               ELSE Frac(0, 1)
    IN  FracMax(Frac(0, 1), FracMin(raw, Frac(1, 1)))

\* a call of compute_combined_score; the value is in 1/10000, the reason
\* holds the numbers it formats with 2 decimals, in 1/100
combined_score_call(testcase, cs, fh, use_frc) ==
    LET risk == risk_score_call(testcase, cs, fh)
        nr   == normalized_risk(risk.score)
        frc  == compute_frc(testcase, cs, fh)
        combined ==
            Round4(FracPlus(FracPlus(FracMul(Frac(4, 10), nr),
                                     FracMul(Frac(4, 10),
                                             Frac(frc.value, Scale4))),
                            FracMul(Frac(2, 10), Frac(1, 2))))
    IN  IF risk.raised # None THEN risk
        ELSE IF ~use_frc THEN risk
        ELSE IF frc.raised # None THEN frc
        ELSE [raised |-> None,
              score  |-> combined,
              reason |-> <<"Risk:", Round2(nr),
                           " + FRC:", Round2(Frac(frc.value, Scale4)),
                           " + LLM:0.5 = Combined:",
                           Round2(Frac(combined, Scale4))>>]

\* texts of the scored test cases and change summaries
CartCheckout == <<"C","a","r","t"," ","C","h","e","c","k","o","u","t">>
Misc == <<"M","i","s","c">>
SelXPath == <<"/","/","a","[","1","]","[","@","x","]">>
SelCss == <<"d","i","v"," ",">"," ","a","[","h","r","e","f","*","=","x","]">>
RefactoredLoginFlow == <<"R","e","f","a","c","t","o","r","e","d"," ","L","o","g","i","n"," ","f","l","o","w">>

\* the test case dicts that are scored: complete ones, one without the
\* optional flaky key, one with the id 0, and ones that lack a key
ScoreCases ==
    {[id |-> 1, component |-> Login, ui_element |-> button,
      selector |-> SelX, execution_time |-> 1, flaky |-> FALSE],
     [id |-> 2, component |-> CartCheckout, ui_element |-> link,
      selector |-> SelXPath, execution_time |-> 5, flaky |-> TRUE],
     [id |-> 4, component |-> Misc, ui_element |-> dropdown,
      selector |-> SelCss, execution_time |-> 1],
     [id |-> 4, component |-> Login, ui_element |-> link,
      selector |-> SelGo, execution_time |-> 1, flaky |-> TRUE],
     [id |-> 0, component |-> Cart, ui_element |-> textbox,
      selector |-> << >>, execution_time |-> 1, flaky |-> TRUE],
     [id |-> 4, ui_element |-> button, selector |-> SelGo,
      execution_time |-> 1, flaky |-> FALSE],
     [id |-> 4, component |-> Login, selector |-> SelGo,
      execution_time |-> 1, flaky |-> FALSE],
     [id |-> 4, component |-> Login, ui_element |-> button,
      execution_time |-> 1, flaky |-> FALSE],
     [id |-> 4, component |-> Login, ui_element |-> button,
      selector |-> SelGo, flaky |-> FALSE],
     [component |-> Login, ui_element |-> button, selector |-> SelGo,
      execution_time |-> 1],
     [id |-> 4]}

ScoreSummaries == ChangeSummaries \cup {RefactoredLoginFlow}

\* feedback histories with results of every shape
ScoreHistories ==
    FeedbackHistories \cup
    {<<Feedback(4, DictResult("pass")), Feedback(4, DictResult("pass")),
       Feedback(1, DictResult("fail")), Feedback(4, DictResult("pass"))>>,
     <<Feedback(4, OtherResult), Feedback(4, DictResult(None)),
       Feedback(4, DictResult("fail")), Feedback(4, DictResult("fail"))>>,
     <<Feedback(4, DictResult("fail")), Feedback(4, OtherResult),
       Feedback(4, DictResult(None)), Feedback(4, StrResult("unknown"))>>,
     <<Feedback(1, DictResult("fail")), Feedback(1, DictResult("pass")),
       Feedback(1, DictResult("fail")), Feedback(1, DictResult("fail")),
       Feedback(1, DictResult("pass")), Feedback(1, DictResult("fail"))>>,
     <<Feedback(0, DictResult("fail")), Feedback(2, StrResult("pass")),
       Feedback(2, StrResult("pass")), Feedback(2, StrResult("pass"))>>,
     <<Feedback(0, DictResult("fail"))>>,
     <<Feedback(1, DictResult("pass")), Feedback(1, StrResult("pass")),
       Feedback(1, DictResult("fail")), Feedback(1, StrResult("pass"))>>}

\* what a scoring call leaves alone
scoreFrame ==
    <<testcases, change_summary, feedback_history, llm_priority, scored,
      final_ranking, corrected, pc, prioritized_order, failing_tests,
      total_tests, k_values, random_order, memory, run>>

\* the scored test case is the one of a batch of one
CallComputeRiskScore ==
    /\ call = "idle"
    /\ ret' = risk_score_call(testcases[1], change_summary, feedback_history)
    /\ call' = "compute_risk_score"
    /\ UNCHANGED scoreFrame

CallComputeFrc ==
    /\ call = "idle"
    /\ ret' = compute_frc(testcases[1], change_summary, feedback_history)
    /\ call' = "compute_frc"
    /\ UNCHANGED scoreFrame

CallComputeFailureHistoryScore ==
    /\ call = "idle"
    /\ ret' = compute_failure_history_score(testcases[1], feedback_history)
    /\ call' = "_compute_failure_history_score"
    /\ UNCHANGED scoreFrame

CallComputeCombinedScore ==
    /\ call = "idle"
    /\ \E use_frc \in BOOLEAN :
           /\ ret' = combined_score_call(testcases[1], change_summary,
                                         feedback_history, use_frc)
           /\ call' = IF use_frc THEN "compute_combined_score"
                      ELSE "compute_combined_score(use_frc=False)"
    /\ UNCHANGED scoreFrame

InitScore ==
    /\ \E tc \in ScoreCases : testcases = <<tc>>
    /\ change_summary \in ScoreSummaries
    /\ feedback_history \in ScoreHistories
    /\ call = "idle"
    /\ ret = None
    /\ llm_priority = << >>
    /\ scored = << >>
    /\ final_ranking = << >>
    /\ corrected = << >>
    /\ pc = "idle"
    /\ prioritized_order = << >>
    /\ failing_tests = {}
    /\ total_tests = 0
    /\ k_values = KNone
    /\ random_order = << >>
    /\ memory = << >>
    /\ run = None

NextScore ==
    \/ CallComputeRiskScore
    \/ CallComputeFrc
    \/ CallComputeFailureHistoryScore
    \/ CallComputeCombinedScore

SpecScore == InitScore /\ [][NextScore]_vars

\* the test case that is scored
ScoredCase == testcases[1]

\* the test case holds every key compute_risk_score reads
Complete == \A i \in 1..Len(RequiredKeys) : RequiredKeys[i] \in DOMAIN ScoredCase

\* a result in one of the two documented forms
WellFormed(result) ==
    \/ result.shape = "str"
    \/ result.shape = "dict" /\ result.status # None

ValidHistory ==
    \A i \in 1..Len(feedback_history) : WellFormed(feedback_history[i].result)

\* C13: for valid test cases, change summaries and feedback histories
\* compute_frc returns a value in [0,1] and compute_combined_score with
\* use_frc=True returns a score in [0,1].
C13_ScoresInUnitInterval ==
    (Complete /\ ValidHistory) =>
        /\ call = "compute_frc" =>
               ret.raised = None /\ 0 <= ret.value /\ ret.value <= Scale4
        /\ call = "compute_combined_score" =>
               ret.raised = None /\ 0 <= ret.score /\ ret.score <= Scale4

\* the feedback entries of the scored test, oldest first
EntriesOfTest ==
    SelectSeq(feedback_history, LAMBDA f : f.test_id = ScoredCase.id)

\* the entries of the scored test, among those after position from, whose
\* result is well formed and has this status
NumberOf(status, from) ==
    Cardinality({i \in 1..Len(EntriesOfTest) :
                    /\ i > from
                    /\ WellFormed(EntriesOfTest[i].result)
                    /\ EntriesOfTest[i].result.status = status})

\* the rules of compute_risk_score in their order: whether the rule is
\* triggered, its increment and its phrase
Rules ==
    <<[on |-> Contains(Lower(ScoredCase.component), Lower(change_summary)),
       add |-> 5, phrase |-> "Component changed"],
      [on |-> ScoredCase.ui_element \in {textbox, button, dropdown},
       add |-> 2, phrase |-> "Important UI element"],
      [on |-> Contains(ScoredCase.selector, change_summary),
       add |-> 3, phrase |-> "Selector match"],
      [on |-> NumberOf("fail", 0) > 0,
       add |-> 2 ^ NumberOf("fail", 0),
       phrase |-> ToString(NumberOf("fail", 0)) \o " historical failures"],
      [on |-> NumberOf("fail", 0) > 0 /\ NumberOf("pass", 0) > 0,
       add |-> 3, phrase |-> "Flaky behavior detected"],
      [on |-> NumberOf("pass", 0) >= 3 /\ NumberOf("fail", 0) = 0,
       add |-> -2, phrase |-> "Consistently stable test"],
      [on |-> NumberOf("fail", Len(EntriesOfTest) - 3) >= 2,
       add |-> 4, phrase |-> "Recent failure trend"],
      [on |-> ScoredCase.execution_time > 4,
       add |-> -1, phrase |-> "Slow test penalty"]>>

Triggered == {i \in 1..Len(Rules) : Rules[i].on}

\* the phrases of the triggered rules from rule i on, ", " between them
RECURSIVE Listed(_)
Listed(i) ==
    IF i > Len(Rules) THEN ""
    ELSE IF ~Rules[i].on THEN Listed(i + 1)
    ELSE IF \E j \in Triggered : j > i
         THEN Rules[i].phrase \o ", " \o Listed(i + 1)
         ELSE Rules[i].phrase

\* C14: compute_risk_score returns the sum of the increments of the
\* triggered rules and a reason string that lists the phrases of the
\* triggered rules in rule order, 'No major risk factors' when there is none.
C14_RiskScoreAndReasons ==
    (call = "compute_risk_score" /\ Complete) =>
        /\ ret.score = SumSeq([i \in 1..Len(Rules) |->
                                  IF Rules[i].on THEN Rules[i].add ELSE 0])
        /\ ret.reason = IF Triggered = {} THEN "No major risk factors"
                        ELSE Listed(1)

\* component 'Login' in 'Refactored Login flow', a button, no history
C14_Witness ==
    /\ call = "compute_risk_score"
    /\ Complete
    /\ ScoredCase.component = Login
    /\ ScoredCase.ui_element = button
    /\ change_summary = RefactoredLoginFlow
    /\ feedback_history = << >>
    /\ ret.score = 7
    /\ ret.reason = "Component changed, Important UI element"

\* C15: compute_frc never fails on the shape of the feedback or of the test
\* case: it takes results that are plain status strings and results that
\* are objects with a status, and defaults missing test case fields.
C15_FrcNeverFails ==
    (call = "compute_frc" /\ ValidHistory) => ret.raised = None

\* C16: compute_risk_score ends in an error, and returns no (score, reason)
\* pair, when component, ui_element, selector or execution_time is absent
\* from the test case, for every change summary and feedback history.
C16_RequiredFieldsNotDefaulted ==
    (/\ call = "compute_risk_score"
     /\ \E k \in {"component", "ui_element", "selector", "execution_time"} :
            k \notin DOMAIN ScoredCase)
    => /\ ret.raised = "KeyError"
       /\ "score" \notin DOMAIN ret
       /\ "reason" \notin DOMAIN ret

C16_Witness ==
    /\ call = "compute_risk_score"
    /\ DOMAIN ScoredCase =
           {"id", "component", "ui_element", "execution_time", "flaky"}
    /\ feedback_history # << >>
    /\ ret.raised = "KeyError"
    /\ ret.key = "selector"

\* the history with 'unknown' written in place of every result that is
\* not well formed
UnknownWritten ==
    [i \in 1..Len(feedback_history) |->
        IF WellFormed(feedback_history[i].result) THEN feedback_history[i]
        ELSE Feedback(feedback_history[i].test_id, StrResult("unknown"))]

\* C17: in compute_risk_score a feedback entry of the test whose result is
\* neither a string nor an object with a status is recorded as 'unknown':
\* the call does not raise, returns what it returns for the history with
\* the status 'unknown' in its place, and counts it neither as a failure
\* nor as a pass.
C17_MalformedResultIsUnknown ==
    (call = "compute_risk_score" /\ Complete) =>
        /\ ret.raised = None
        /\ ret = risk_score_call(ScoredCase, change_summary, UnknownWritten)
        /\ Count(TestHistory(ScoredCase.id, feedback_history), "fail")
               = NumberOf("fail", 0)
        /\ Count(TestHistory(ScoredCase.id, feedback_history), "pass")
               = NumberOf("pass", 0)

\* one failure and three malformed or unknown results of test 4
C17_Witness ==
    /\ call = "compute_risk_score"
    /\ Complete
    /\ ScoredCase.id = 4
    /\ ScoredCase.component = Misc
    /\ change_summary = RefactoredLoginFlow
    /\ feedback_history =
           <<Feedback(4, DictResult("fail")), Feedback(4, OtherResult),
             Feedback(4, DictResult(None)), Feedback(4, StrResult("unknown"))>>
    /\ ret.score = 4
    /\ ret.reason = "Important UI element, 1 historical failures"

----------------------------------------------------------------------------
(* generate_report on batches too large for every shuffle to be tried: the
   batch has one failing test, the test 1, and an order is told by the
   position of that test.  Of the report the model keeps the entries that
   the k values, the two APFD scores and the lift factor go into. *)

\* n test cases with the ids 1..n, of which the test 1 failed last
LargeBatch(n) ==
    [i \in 1..n |->
        ReportCase(i, 1 * Scale2, IF i = 1 THEN "fail" ELSE "pass", FALSE)]

\* the ids 1..n with the id 1 at position p
OrderWithFirstAt(n, p) ==
    [i \in 1..n |-> IF i = p THEN 1 ELSE IF i < p THEN i + 1 ELSE i]

LargeSizes == {4, 7, 10, 25, 600, 1000}

\* the positions of the failing test that are tried: the first three and
\* the last three
EndPositions(n) == {p \in 1..n : p <= 3 \/ p > n - 3}

\* the entries of the dict generate_report returns that depend on the
\* k values and on the APFD of the agentic and of the random order
large_report(tcs, agentic_order, failing, kv, shuffled) ==
    LET ks == report_k_values(tcs, kv)
        apfd_scores ==
            [agentic_apfd |-> APFDValidator_compute_apfd(agentic_order, failing),
             random_apfd  |-> APFDValidator_compute_apfd(shuffled, failing)]
    IN  [early_fault_detection |->
             early_fault_detection(agentic_order, failing, KList(ks)),
         precision_at_k |-> precision_at_k(agentic_order, failing, KList(ks)),
         lift_factor    |-> lift_factor(apfd_scores),
         total_tests    |-> Len(tcs),
         failing_tests  |-> Cardinality(failing),
         agentic_apfd   |-> apfd_scores.agentic_apfd,
         random_apfd    |-> apfd_scores.random_apfd,
         improvement_over_random |->
             apfd_scores.agentic_apfd - apfd_scores.random_apfd]

GenerateLargeReport ==
    /\ call = "idle"
    /\ \E a \in EndPositions(Len(testcases)),
          p \in EndPositions(Len(testcases)),
          kv \in {KNone, KList(<<1, 2>>)} :
           LET agentic_order == OrderWithFirstAt(Len(testcases), a)
               shuffled      == OrderWithFirstAt(Len(testcases), p)
           IN  /\ prioritized_order' = agentic_order
               /\ random_order' = shuffled
               /\ failing_tests' = extract_ground_truth(testcases)
               /\ k_values' = kv
               /\ ret' = large_report(testcases, agentic_order,
                                      extract_ground_truth(testcases), kv,
                                      shuffled)
    /\ call' = "generate_report"
    /\ UNCHANGED <<runVars, testcases, total_tests,
                   change_summary, feedback_history, llm_priority, scored,
                   final_ranking, corrected, pc>>

InitLargeReport ==
    /\ \E n \in LargeSizes : testcases = LargeBatch(n)
    /\ prioritized_order = << >>
    /\ failing_tests = {}
    /\ total_tests = 0
    /\ call = "idle"
    /\ ret = None
    /\ k_values = KNone
    /\ random_order = << >>
    /\ memory = << >>
    /\ run = None
    /\ change_summary = << >>
    /\ feedback_history = << >>
    /\ llm_priority = << >>
    /\ scored = << >>
    /\ final_ranking = << >>
    /\ corrected = << >>
    /\ pc = "idle"

NextLargeReport == GenerateLargeReport

SpecLargeReport == InitLargeReport /\ [][NextLargeReport]_vars

\* C21: generate_report sets lift_factor to
\* agentic_apfd / max(random_apfd, 0.001) rounded to 2 decimals, for every
\* value of random_apfd, those strictly between 0 and 0.001 included.
C21_LiftFactorFloor ==
    call = "generate_report" =>
        ret.lift_factor =
            Round2(Frac(ret.agentic_apfd,
                        IF ret.random_apfd > Scale4 \div 1000
                        THEN ret.random_apfd ELSE Scale4 \div 1000))

\* floor(n * tenths / 10), at least 1
TenthsOfBatch(tenths) ==
    LET k == (Len(testcases) * tenths) \div 10
    IN  IF k < 1 THEN 1 ELSE k

----------------------------------------------------------------------------
(* the failure-history sub-score of the FRC *)

\* every feedback entry holds a dict with a status
DictHistory ==
    \A i \in 1..Len(feedback_history) :
        /\ feedback_history[i].result.shape = "dict"
        /\ feedback_history[i].result.status # None

\* 0.5^d for every 'fail' among the entries at distance d..4 from the most
\* recent entry of the scored test
RECURSIVE RecencySum(_)
RecencySum(d) ==
    IF d > 4 \/ d >= Len(EntriesOfTest) THEN Frac(0, 1)
    ELSE FracPlus(IF EntriesOfTest[Len(EntriesOfTest) - d].result.status = "fail"
                  THEN Frac(1, 2 ^ d) ELSE Frac(0, 1),
                  RecencySum(d + 1))

\* min(1, 0.7 * failures / total + 0.3 * min(recency_sum / 5, 1))
HistorySubScore ==
    LET total    == Len(EntriesOfTest)
        failures == NumberOf("fail", 0)
        trend    == FracMin(FracMul(RecencySum(0), Frac(1, 5)), Frac(1, 1))
    IN  FracMin(Frac(1, 1),
                FracPlus(FracMul(Frac(7, 10), Frac(failures, total)),
                         FracMul(Frac(3, 10), trend)))

\* C23: for every test case id, 0 included, and every feedback history of
\* dict results the failure-history sub-score is 0 when no entry has the
\* test's id and min(1, 0.7*failures/total + 0.3*min(recency_sum/5, 1))
\* otherwise.
C23_FailureHistoryScore ==
    (/\ call = "_compute_failure_history_score"
     /\ "id" \in DOMAIN ScoredCase
     /\ DictHistory) =>
        /\ ret.raised = None
        /\ FracNorm(ret.value) =
               IF EntriesOfTest = << >> THEN Frac(0, 1)
               ELSE FracNorm(HistorySubScore)

\* the sub-score of a test with failures in its history
C23_Scored ==
    /\ call = "_compute_failure_history_score"
    /\ "id" \in DOMAIN ScoredCase
    /\ DictHistory
    /\ Len(EntriesOfTest) = 6
    /\ ret.raised = None
    /\ FracNorm(ret.value) = Frac(659, 1200)
----------------------------------------------------------------------------
(* the lowest risk score *)

\* the reasons list of the returned result names this phrase
Named(phrase) == \E i \in 1..Len(ret.reasons) : ret.reasons[i] = phrase

\* the reasons list names some number of historical failures
NamesFailures ==
    \E n \in 1..Len(feedback_history) :
        Named(ToString(n) \o " historical failures")

\* C30: 'Consistently stable test' is never given together with a
\* failure-based reason ('N historical failures', 'Flaky behavior detected',
\* 'Recent failure trend'), 'Recent failure trend' is given only when the
\* test has at least 2 failures, and the risk score is never below -3.
C30_RiskScoreFloor ==
    (call = "compute_risk_score" /\ ret.raised = None) =>
        /\ Named("Consistently stable test") =>
               /\ ~NamesFailures
               /\ ~Named("Flaky behavior detected")
               /\ ~Named("Recent failure trend")
        /\ Named("Recent failure trend") => NumberOf("fail", 0) >= 2
        /\ ret.score >= -3

\* a slow test with three passes and nothing else: the score -3
C30_Witness ==
    /\ call = "compute_risk_score"
    /\ ret.raised = None
    /\ ret.reasons = <<"Consistently stable test", "Slow test penalty">>
    /\ ret.score = -3
----------------------------------------------------------------------------
(* validate_dataset: the report on the ground truth of the batch *)

\* generate_report as validate_dataset calls it: on the ids whose
\* last_result is 'fail', of which there is at least one
CalledByValidateDataset ==
    /\ call = "generate_report.compare_against_baselines"
    /\ failing_tests = extract_ground_truth(testcases)
    /\ failing_tests # {}

\* C27: with the ids of last_result 'fail' as the failing set, the APFD of
\* the history_based baseline is maximal: the agentic_apfd of the report,
\* and the APFD of every other rearrangement of the batch ids, is at most
\* history_based_apfd.
C27_HistoryBasedIsMaximal ==
    CalledByValidateDataset =>
        /\ ret.agentic_apfd <= ret.history_based_apfd
        /\ \A order \in Rearrangements(BatchIdsOf(testcases)) :
               APFDValidator_compute_apfd(order, failing_tests)
                   <= ret.history_based_apfd

\* the failed tests 3 and 1 ranked second and third: 0.3333 against 0.6667
C27_Witness ==
    /\ CalledByValidateDataset
    /\ testcases = <<T1, T2, T3>>
    /\ prioritized_order = <<2, 3, 1>>
    /\ ret.agentic_apfd = 3333
    /\ ret.history_based_apfd = 6667
----------------------------------------------------------------------------
(* The range of the APFD and its growth when a failure moves forward *)

\* the APFD of an order before compute_apfd rounds it
Unrounded(order) ==
    ApfdUnrounded(SumSeq(RanksOfFailures(order, failing_tests)),
                  Len(order), Cardinality(failing_tests))

\* the order holds every failing id, and there is one at least
HoldsAllFailures ==
    /\ failing_tests # {}
    /\ failing_tests \subseteq SetOf(prioritized_order)

\* C28: for an order without duplicates that holds all m >= 1 failing ids
\* the APFD before rounding is at least m/(2n) and at most 1 - m/(2n), so
\* below 1; it is 1 - m/(2n) exactly when the failing ids are at the first m
\* positions and m/(2n) exactly when they are at the last m.
C28_ApfdRange ==
    (call = "APFDValidator.compute_apfd" /\ HoldsAllFailures) =>
        LET n == Len(prioritized_order)
            m == Cardinality(failing_tests)
            u == Unrounded(prioritized_order)
        IN  /\ FracLeq(Frac(m, 2 * n), u)
            /\ FracLeq(u, Frac(2 * n - m, 2 * n))
            /\ u[1] < u[2]
            /\ (u = FracNorm(Frac(2 * n - m, 2 * n)))
                   <=> FailingPositions = 1..m
            /\ (u = FracNorm(Frac(m, 2 * n)))
                   <=> FailingPositions = (n - m + 1)..n

\* two failures at the first two of five positions: 1 - 2/10, and the method
\* returns 0.8
C28_Witness ==
    /\ call = "APFDValidator.compute_apfd"
    /\ HoldsAllFailures
    /\ Len(prioritized_order) = 5
    /\ Cardinality(failing_tests) = 2
    /\ FailingPositions = {1, 2}
    /\ Unrounded(prioritized_order) = Frac(4, 5)
    /\ ret = 8000

\* the positions of a failing id that follows a non-failing id
SwapPositions ==
    {i \in 2..Len(prioritized_order) :
        /\ prioritized_order[i] \in failing_tests
        /\ prioritized_order[i - 1] \notin failing_tests}

\* the order with the ids at the positions i - 1 and i swapped
Swapped(i) ==
    [j \in 1..Len(prioritized_order) |->
        IF j = i - 1 THEN prioritized_order[i]
        ELSE IF j = i THEN prioritized_order[i - 1]
        ELSE prioritized_order[j]]

\* C29: swapping a failing id with the non-failing id right before it raises
\* the APFD before rounding by exactly 1/(n*m), does not lower the value
\* compute_apfd returns, does not raise what calculate_wasted_effort
\* returns, and leaves the length of the order and the failing set alone.
C29_SwapForward ==
    \A i \in SwapPositions :
        LET n == Len(prioritized_order)
            m == Cardinality(failing_tests)
        IN  /\ Len(Swapped(i)) = n
            /\ SetOf(Swapped(i)) = SetOf(prioritized_order)
            /\ call = "APFDValidator.compute_apfd" =>
                   /\ FracNorm(FracSub(Unrounded(Swapped(i)),
                                       Unrounded(prioritized_order)))
                          = FracNorm(Frac(1, n * m))
                   /\ APFDValidator_compute_apfd(Swapped(i), failing_tests)
                          >= ret
            /\ call = "calculate_wasted_effort" =>
                   calculate_wasted_effort(Swapped(i), failing_tests) <= ret

\* [2, 1, 3] with the failing test 1 returns 0.5; [1, 2, 3] returns 0.8333
C29_Witness ==
    /\ call = "APFDValidator.compute_apfd"
    /\ prioritized_order = <<2, 1, 3>>
    /\ failing_tests = {1}
    /\ SwapPositions = {2}
    /\ ret = 5000
    /\ APFDValidator_compute_apfd(Swapped(2), failing_tests) = 8333
----------------------------------------------------------------------------
(* The feedback memory: one JSON file per dataset (core/feedback.py).  A
   file is missing or holds text; of the text the model keeps what
   json.load makes of it. *)

\* dataset names: None and '' stand for the generic memory
DatasetNames == {None, "", "small", "medium"}

\* _memory_path: the file name under the base directory
memory_path(dataset_name) ==
    IF dataset_name = None \/ dataset_name = "" THEN "memory.json"
    ELSE dataset_name \o "_memory.json"

MemoryPaths == {memory_path(d) : d \in DatasetNames}

\* what json.load makes of a text: a list, a dict, another value, or an
\* exception
JList(items)  == [kind |-> "list", items |-> items]
JDict(fields) == [kind |-> "dict", fields |-> fields]
JOther        == [kind |-> "other"]
Unparseable   == [kind |-> "error"]

Missing      == [exists |-> FALSE]
FileOf(data) == [exists |-> TRUE, data |-> data]

\* isinstance(data, dict) and isinstance(data.get("feedback"), list)
HasFeedbackList(data) ==
    /\ data.kind = "dict"
    /\ "feedback" \in DOMAIN data.fields
    /\ data.fields.feedback.kind = "list"

\* the file that load_feedback and save_feedback work on: a missing file is
\* first written as "[]"
Created(file) == IF file.exists THEN file ELSE FileOf(JList(<< >>))

\* load_feedback: the list it returns for a file
load_feedback(file) ==
    IF ~file.exists THEN << >>
    ELSE IF file.data.kind = "error" THEN << >>
    ELSE IF file.data.kind = "list" THEN file.data.items
    ELSE IF HasFeedbackList(file.data) THEN file.data.fields.feedback.items
    ELSE << >>

\* a save that writes the new entry alone
save_feedback_overwriting(file, test_id, result) ==
    FileOf(JList(<<[test_id |-> test_id, result |-> result]>>))

\* save_feedback: the file it leaves
save_feedback(file, test_id, result) ==
    LET read  == Created(file).data
        data  == IF read.kind = "error" THEN JList(<< >>) ELSE read
        entry == [test_id |-> test_id, result |-> result]
        out   == IF HasFeedbackList(data)
                 THEN JDict([data.fields EXCEPT
                                !.feedback = JList(Append(@.items, entry))])
                 ELSE IF data.kind = "list"
                 THEN JList(Append(data.items, entry))
                 ELSE JList(<<entry>>)
    IN  FileOf(out)

\* an entry of an earlier run
OldEntry == Feedback(4, DictResult("pass"))

\* the files a run can find
InitialFiles ==
    {Missing, FileOf(Unparseable), FileOf(JOther), FileOf(JList(<< >>)),
     FileOf(JList(<<OldEntry>>)),
     FileOf(JDict([feedback |-> JList(<<OldEntry>>), version |-> JOther])),
     FileOf(JDict([version |-> JOther]))}

\* the number of entries in all the files
RECURSIVE StoredEntries(_, _)
StoredEntries(mem, paths) ==
    IF paths = {} THEN 0
    ELSE LET p == CHOOSE q \in paths : TRUE
         IN  Len(load_feedback(mem[p])) + StoredEntries(mem, paths \ {p})

\* what a feedback call leaves alone
feedbackFrame ==
    <<testcases, change_summary, feedback_history, llm_priority, scored,
      final_ranking, corrected, pc, prioritized_order, failing_tests,
      total_tests, k_values, random_order>>

CallLoadFeedback ==
    /\ \E dataset_name \in DatasetNames :
           /\ run' = [dataset_name |-> dataset_name]
           /\ ret' = load_feedback(memory[memory_path(dataset_name)])
           /\ memory' = [memory EXCEPT ![memory_path(dataset_name)] =
                                           Created(@)]
    /\ call' = "load_feedback"
    /\ UNCHANGED feedbackFrame

CallSaveFeedback ==
    /\ StoredEntries(memory, MemoryPaths) < MaxEntries
    /\ \E dataset_name \in DatasetNames, test_id \in 1..2,
          status \in {"pass", "fail"} :
           /\ run' = [dataset_name |-> dataset_name, test_id |-> test_id,
                      result |-> DictResult(status)]
           /\ memory' = [memory EXCEPT ![memory_path(dataset_name)] =
                             save_feedback(@, test_id, DictResult(status))]
    /\ ret' = None
    /\ call' = "save_feedback"
    /\ UNCHANGED feedbackFrame

InitFeedback ==
    /\ memory \in [MemoryPaths -> InitialFiles]
    /\ run = None
    /\ call = "idle"
    /\ ret = None
    /\ testcases = << >>
    /\ change_summary = << >>
    /\ feedback_history = << >>
    /\ llm_priority = << >>
    /\ scored = << >>
    /\ final_ranking = << >>
    /\ corrected = << >>
    /\ pc = "idle"
    /\ prioritized_order = << >>
    /\ failing_tests = {}
    /\ total_tests = 0
    /\ k_values = KNone
    /\ random_order = << >>

NextFeedback ==
    \/ CallLoadFeedback
    \/ CallSaveFeedback

SpecFeedback == InitFeedback /\ [][NextFeedback]_vars

\* C26: a save_feedback call for a dataset leaves load_feedback of that
\* dataset returning what it returned before followed by the saved entry,
\* and leaves the files of the other datasets as they were; a load_feedback
\* call returns the entries of its dataset and changes the entries of none.
C26_AppendOnly ==
    [][/\ call' = "save_feedback" =>
              LET path == memory_path(run'.dataset_name)
              IN  /\ load_feedback(memory'[path]) =
                         Append(load_feedback(memory[path]),
                                [test_id |-> run'.test_id,
                                 result |-> run'.result])
                  /\ \A other \in MemoryPaths \ {path} :
                         memory'[other] = memory[other]
       /\ call' = "load_feedback" =>
              /\ ret' = load_feedback(memory'[memory_path(run'.dataset_name)])
              /\ \A path \in MemoryPaths :
                     load_feedback(memory'[path]) = load_feedback(memory[path])
      ]_vars

\* two entries saved for 'small' after an old one, in call order, with the
\* generic memory still missing
C26_Witness ==
    /\ call = "save_feedback"
    /\ run.dataset_name = "small"
    /\ load_feedback(memory["small_memory.json"]) =
           <<OldEntry, Feedback(1, DictResult("fail")),
             Feedback(2, DictResult("pass"))>>
    /\ memory["small_memory.json"].data.kind = "dict"
    /\ memory["memory.json"] = Missing
----------------------------------------------------------------------------
(* run_prioritization (main.py): the feedback is loaded, the prioritizer is
   called up to three times, the order is validated, the tests are run in
   simulation, the results are saved one by one and the report is written.
   The prioritizer, the random numbers of the simulated execution and the
   report writer are outside: a call of the prioritizer returns an order or
   raises, and every test passes or fails. *)

Programs == {"src/main.py", "src/project/main.py"}

\* num_retries
num_retries == 3

ResourceExhaustedText ==
    <<"R","e","s","o","u","r","c","e","E","x","h","a","u","s","t","e","d">>

\* str(exc) of the exceptions a call of the prioritizer raises: the quota
\* error of the model service, the same in lower case, a timeout, and the
\* TypeError of an unexpected keyword argument
QuotaMessage == <<"4","2","9"," ">> \o ResourceExhaustedText
LowerQuotaMessage == Lower(QuotaMessage)
TimeoutMessage == <<"t","i","m","e","d"," ","o","u","t">>
KeywordMessage ==
    <<"u","n","e","x","p","e","c","t","e","d"," ","k","e","y","w","o","r","d",
      " ","a","r","g","u","m","e","n","t">>

Returned(ids) == [raised |-> FALSE, message |-> << >>, ids |-> ids]
Raised(message) == [raised |-> TRUE, message |-> message, ids |-> << >>]

\* the orders a prioritizer returns for a batch: the batch order, its
\* reverse, an order that names the first test twice, and no order
ReturnedOrders(tcs) ==
    {BatchIdsOf(tcs), Reversed(BatchIdsOf(tcs)),
     BatchIdsOf(tcs) \o <<tcs[1].id>>, << >>}

\* prioritize_tests(change_summary, feedback_history, testcases=testcases):
\* core/prioritizer.py of src/project takes no testcases argument, so that
\* the call raises TypeError there
PrioritizerOutcomes(program, tcs) ==
    IF program = "src/project/main.py" THEN {Raised(KeywordMessage)}
    ELSE {Returned(ids) : ids \in ReturnedOrders(tcs)}
             \cup {Raised(QuotaMessage), Raised(LowerQuotaMessage),
                   Raised(TimeoutMessage)}

\* a retry after every failure
ShouldRetryAlways(message, attempt) == attempt < num_retries - 1

\* "ResourceExhausted" in str(exc) and attempt < num_retries - 1
ShouldRetry(message, attempt) ==
    Contains(ResourceExhaustedText, message) /\ attempt < num_retries - 1

\* retry_delay = 60 * (2 ** attempt)
retry_delay(attempt) == 60 * (2 ^ attempt)

\* a test case that holds no 'flaky' key
Unflagged == [id |-> 3, execution_time |-> 3 * Scale2, last_result |-> "fail"]

\* validate_dataset(dataset_name, testcases, agentic_order): of the report
\* the model keeps the counts and the agentic APFD; the baselines raise
\* KeyError for a test case without execution_time or flaky
validate_dataset(dataset_name, tcs, agentic_order) ==
    LET failing == extract_ground_truth(tcs)
    IN  IF failing = {}
        THEN [raised |-> FALSE,
              value  |-> [dataset |-> dataset_name, total_tests |-> Len(tcs),
                          failing_tests |-> 0, error |-> "No failing tests"]]
        ELSE IF \E i \in 1..Len(tcs) :
                    {"execution_time", "flaky"} \ DOMAIN tcs[i] # {}
        THEN [raised |-> TRUE]
        ELSE [raised |-> FALSE,
              value  |-> [dataset |-> dataset_name, total_tests |-> Len(tcs),
                          failing_tests |-> Cardinality(failing),
                          agentic_apfd |->
                              APFDValidator_compute_apfd(agentic_order,
                                                         failing)]]

\* an entry of results for every position of the order
results_items_per_position(prioritized_ids, actual_result) ==
    [i \in 1..Len(prioritized_ids) |->
        [test_id |-> prioritized_ids[i],
         status  |-> actual_result[prioritized_ids[i]]]]

\* results.items(): the dict holds a test id once, at the place of its
\* first assignment, with the result assigned last
results_items(prioritized_ids, actual_result) ==
    LET first == SelectSeq([i \in 1..Len(prioritized_ids) |-> i],
                     LAMBDA i : \A j \in 1..(i - 1) :
                                   prioritized_ids[j] # prioritized_ids[i])
    IN  [k \in 1..Len(first) |->
            [test_id |-> prioritized_ids[first[k]],
             status  |-> actual_result[prioritized_ids[first[k]]]]]

\* what a step of the run leaves alone
runFrame ==
    <<testcases, change_summary, llm_priority, scored, final_ranking,
      corrected, failing_tests, total_tests, call, ret, k_values,
      random_order>>

\* from the entry to the loaded feedback
RunLoadFeedback ==
    /\ pc = "run_prioritization"
    /\ IF testcases = << >>
       THEN /\ pc' = "returned"
            /\ run' = [run EXCEPT !.returned = "no testcases"]
            /\ UNCHANGED <<memory, feedback_history>>
       ELSE /\ pc' = "prioritize_tests"
            /\ feedback_history' =
                   load_feedback(memory[memory_path(run.dataset_name)])
            /\ memory' = [memory EXCEPT ![memory_path(run.dataset_name)] =
                                            Created(@)]
            /\ UNCHANGED run
    /\ UNCHANGED <<prioritized_order, runFrame>>

\* one pass of the retry loop
RunPrioritize ==
    /\ pc = "prioritize_tests"
    /\ \E outcome \in PrioritizerOutcomes(run.program, testcases) :
           IF ~outcome.raised
           THEN /\ prioritized_order' = outcome.ids
                /\ run' = [run EXCEPT !.calls = @ + 1, !.exc = outcome]
                /\ pc' = "validate_dataset"
           ELSE IF ShouldRetry(outcome.message, run.attempt)
           THEN /\ run' = [run EXCEPT
                              !.calls = @ + 1, !.exc = outcome,
                              !.slept = Append(@, retry_delay(run.attempt)),
                              !.attempt = @ + 1]
                /\ pc' = "prioritize_tests"
                /\ UNCHANGED prioritized_order
           ELSE /\ run' = [run EXCEPT !.calls = @ + 1, !.exc = outcome,
                                      !.returned = "prioritization failed"]
                /\ pc' = "returned"
                /\ UNCHANGED prioritized_order
    /\ UNCHANGED <<memory, feedback_history, runFrame>>

\* the validation, when it is enabled
RunValidate ==
    /\ pc = "validate_dataset"
    /\ LET result == validate_dataset(run.dataset_name, testcases,
                                      prioritized_order)
       IN  run' = IF ~run.enable_validation
                  THEN [run EXCEPT !.validation = "skipped"]
                  ELSE IF result.raised
                  THEN [run EXCEPT !.validation = "raised"]
                  ELSE [run EXCEPT !.validation = "returned",
                                   !.validation_result = result.value]
    /\ pc' = "execute"
    /\ UNCHANGED <<memory, feedback_history, prioritized_order, runFrame>>

\* the simulated execution: every test passes or fails
RunExecute ==
    /\ pc = "execute"
    /\ \E actual_result \in [SetOf(prioritized_order) -> {"pass", "fail"}] :
           run' = [run EXCEPT
                      !.results = results_items(prioritized_order,
                                                actual_result)]
    /\ pc' = "save_feedback"
    /\ UNCHANGED <<memory, feedback_history, prioritized_order, runFrame>>

\* one save_feedback call of the loop over results.items()
RunSaveFeedback ==
    /\ pc = "save_feedback"
    /\ run.saved < Len(run.results)
    /\ LET item == run.results[run.saved + 1]
       IN  memory' = [memory EXCEPT ![memory_path(run.dataset_name)] =
                         save_feedback(@, item.test_id,
                                       DictResult(item.status))]
    /\ run' = [run EXCEPT !.saved = @ + 1]
    /\ UNCHANGED <<pc, feedback_history, prioritized_order, runFrame>>

\* generate_html_report, after the last save_feedback call
RunReport ==
    /\ pc = "save_feedback"
    /\ run.saved = Len(run.results)
    /\ run' = [run EXCEPT !.report = TRUE, !.returned = "completed"]
    /\ pc' = "returned"
    /\ UNCHANGED <<memory, feedback_history, prioritized_order, runFrame>>

\* the batches handed to run_prioritization
RunBatches == {<< >>, <<T1, T2>>, <<T2, T4>>, <<T1, Unflagged>>}

InitRun ==
    /\ testcases \in RunBatches
    /\ \E program \in Programs, dataset_name \in {"small", "medium"},
          enable_validation \in BOOLEAN :
           run = [program |-> program, dataset_name |-> dataset_name,
                  enable_validation |-> enable_validation,
                  attempt |-> 0, calls |-> 0, exc |-> Returned(<< >>),
                  slept |-> << >>, validation |-> "not run",
                  validation_result |-> None, results |-> << >>,
                  saved |-> 0, report |-> FALSE, returned |-> ""]
    /\ \E own \in {Missing, FileOf(Unparseable), FileOf(JList(<<OldEntry>>)),
                   FileOf(JDict([feedback |-> JList(<<OldEntry>>),
                                 version |-> JOther]))} :
           memory = [path \in MemoryPaths |->
                        IF path = memory_path(run.dataset_name) THEN own
                        ELSE FileOf(JList(<<OldEntry>>))]
    /\ pc = "run_prioritization"
    /\ feedback_history = << >>
    /\ prioritized_order = << >>
    /\ change_summary = << >>
    /\ llm_priority = << >>
    /\ scored = << >>
    /\ final_ranking = << >>
    /\ corrected = << >>
    /\ failing_tests = {}
    /\ total_tests = 0
    /\ call = "idle"
    /\ ret = None
    /\ k_values = KNone
    /\ random_order = << >>

NextRun ==
    \/ RunLoadFeedback
    \/ RunPrioritize
    \/ RunValidate
    \/ RunExecute
    \/ RunSaveFeedback
    \/ RunReport

SpecRun == InitRun /\ [][NextRun]_vars

\* the entries in the memory file of the run's dataset
RunEntries == load_feedback(memory[memory_path(run.dataset_name)])

\* the run ended because the prioritizer failed
PrioritizationFailed ==
    pc = "returned" /\ run.returned = "prioritization failed"

\* C24: run_prioritization calls the prioritizer at most 3 times; after a
\* failed call it calls again, having slept 60 s the first time and 120 s
\* the second, exactly when the message holds 'ResourceExhausted' and the
\* call was not the third; after any other failed call the run ends, and it
\* ends validated not at all, with no feedback entry saved and no report.
C24_RetryOnlyOnResourceExhausted ==
    /\ [](/\ run.calls <= 3
          /\ PrioritizationFailed =>
                 /\ run.validation = "not run"
                 /\ run.validation_result = None
                 /\ run.saved = 0
                 /\ RunEntries = feedback_history
                 /\ ~run.report)
    /\ [][pc = "prioritize_tests" =>
              /\ run'.calls = run.calls + 1
              /\ (pc' = "prioritize_tests") <=>
                     /\ run'.exc.raised
                     /\ Contains(ResourceExhaustedText, run'.exc.message)
                     /\ run'.calls < 3
              /\ pc' = "prioritize_tests" =>
                     run'.slept =
                         Append(run.slept, IF run.calls = 0 THEN 60 ELSE 120)
              /\ (run'.exc.raised /\ pc' # "prioritize_tests") =>
                     PrioritizationFailed'
              /\ ~run'.exc.raised => pc' = "validate_dataset"
      ]_vars

\* the third call failed on the quota as well: two sleeps, of 60 s and of
\* 120 s, and nothing validated, saved or reported
C24_Witness ==
    /\ PrioritizationFailed
    /\ run.calls = 3
    /\ run.slept = <<60, 120>>
    /\ run.exc = Raised(QuotaMessage)
    /\ run.validation = "not run"
    /\ run.saved = 0
    /\ ~run.report

\* the run went through to its last statement
Completed == pc = "returned" /\ run.returned = "completed"

\* the new entries of the memory file: those after the loaded ones
NewEntries ==
    SubSeq(RunEntries, Len(feedback_history) + 1, Len(RunEntries))

\* C25: the memory file of the dataset holds the loaded entries alone until
\* the order has been returned and the validation, when enabled, has
\* returned or raised; a validation that raised leaves the run going to its
\* end; and when the run has completed the file holds the loaded entries
\* followed by exactly one new entry for each distinct prioritized test id.
C25_FeedbackAfterRanking ==
    pc # "run_prioritization" /\ testcases # << >> =>
        /\ SubSeq(RunEntries, 1, Len(feedback_history)) = feedback_history
        /\ NewEntries # << >> =>
               /\ pc \in {"save_feedback", "returned"}
               /\ ~run.exc.raised
               /\ run.enable_validation =>
                      run.validation \in {"returned", "raised"}
        /\ run.validation = "raised" =>
               /\ pc \in {"execute", "save_feedback", "returned"}
               /\ pc = "returned" => Completed
        /\ Completed =>
               /\ run.report
               /\ Len(NewEntries) = Cardinality(SetOf(prioritized_order))
               /\ \A id \in SetOf(prioritized_order) :
                      Cardinality({i \in 1..Len(NewEntries) :
                                      NewEntries[i].test_id = id}) = 1
               /\ \A i \in 1..Len(NewEntries) :
                      /\ NewEntries[i].result.shape = "dict"
                      /\ NewEntries[i].result.status \in {"pass", "fail"}

\* a completed run whose validation raised: the order names test 1 twice
\* and two entries were saved
C25_Witness ==
    /\ Completed
    /\ run.enable_validation
    /\ run.validation = "raised"
    /\ prioritized_order = <<1, 3, 1>>
    /\ Len(feedback_history) = 1
    /\ Len(NewEntries) = 2
    /\ NewEntries[1].test_id = 1
    /\ NewEntries[2].test_id = 3

====
